---- MODULE Spec2Model ----
(***************************************************************************)
(* Scheduled distribution of the daily progress report:                    *)
(*   send_daily_reports.py  main()                                         *)
(*   utils/email_service.py should_send_daily_report, get_smtp_config,     *)
(*                          validate_smtp_config, send_email_with_         *)
(*                          attachment, get_active_recipients,             *)
(*                          log_email_send, send_daily_report_to_all       *)
(*   utils/export_excel.py  get_reports_from_db, create_dpr_excel          *)
(* One process (the cron job) runs main() again and again; the record      *)
(* store (email_recipients, email_logs, daily_reports) and the SMTP        *)
(* channel are its environment.                                            *)
(*                                                                         *)
(* Data entry and export:                                                  *)
(*   components/engineer_dashboard.py  the Save Report button              *)
(*   utils/data_entry.py    validate_report_data, save_daily_report        *)
(*   utils/export_excel.py  create_dpr_excel (activity rows and TOTAL row) *)
(* SpecSave is the save flow called again and again, SpecButton one press  *)
(* of the button on any form, SpecRace two sessions saving the same site   *)
(* and day step by step, SpecMatrix one export of any report list.         *)
(*                                                                         *)
(* Dashboard aggregation:                                                  *)
(*   utils/analytics.py     get_dashboard_metrics, get_site_wise_metrics,  *)
(*                          get_activity_wise_metrics, get_daily_trend_    *)
(*                          data, get_cumulative_progress,                 *)
(*                          get_monthly_summary                            *)
(* SpecAnalytics is one call of any of the six operations over a store of  *)
(* reports, with or without a failing query; SpecActivity is the activity  *)
(* view next to the export of the same reports. Quantities of the export   *)
(* and of the dashboard count thousandths of a unit, so that round(x, 2)   *)
(* has something to round.                                                 *)
(***************************************************************************)
EXTENDS Integers, Sequences, FiniteSets, TLC

\* ------------------------------------------------------------- bounds
MaxRecipients == 2      \* rows of the email_recipients table
MaxRuns       == 2      \* invocations of main() that pass the time gate
MaxQty        == 2      \* largest quantity typed into a form field
MaxReports    == 2      \* reports in the list an export compiles
MaxFaults     == 2      \* failures and concurrent writes the environment injects
DaysInMonth   == 2      \* days of a month of the monthly summary

\* ---------------------------------------------------- program constants
target_hour   == 10
target_minute == 30
tolerance     == 5
IstOffset     == 330    \* Asia/Kolkata is UTC+05:30, no daylight saving
EXIT_SKIPPED  == 0
EXIT_SUCCESS  == 0
EXIT_ERROR    == 1
EXIT_WARNING  == 2

\* The instants (minutes after midnight UTC) at which the clock is observed:
\* 09:30 IST; 10:24, 10:25, 10:30, 10:35, 10:36 IST (the edges of the window
\* and the minute either side); 11:30 IST; 10:30 UTC (= 16:00 IST) and
\* 19:00 UTC (= 00:30 IST of the next day).
Times == {240, 294, 295, 300, 305, 306, 360, 630, 1140}

VARIABLES
    now,              \* system clock, minutes after midnight UTC
    today,            \* date.today(), a day number
    email_recipients, \* store table: sequence of rows
    email_logs,       \* store table: the delivery log, a sequence of rows
    daily_reports,    \* store table: set of report rows
    mailbox,          \* messages the SMTP channel accepted: <<[to, report_date]>>
    passes,           \* history: invocations of the day that passed the time gate
    faults,           \* history: environment events injected so far
    pc,               \* position of the process in main()
    report_date,      \* local `yesterday`
    recipients,       \* local of send_daily_report_to_all
    reports_data,     \* local: the rows get_reports_from_db returned
    excel_data,       \* local: the compiled attachment
    config,           \* local: the SMTP configuration
    idx,              \* position of the for loop, 1-based
    success,          \* local: result of the last send_email_with_attachment
    error,            \* local: its message
    sent_count,
    failed_count,
    result,           \* the dictionary send_daily_report_to_all returned
    exit_code,        \* what main() returned
    outcome,          \* history: which return statement of main() was taken
    prev,             \* history: outcome and exit code of the previous invocation
    run_base,         \* history: sizes of email_logs and mailbox when the invocation began
    trace,            \* history: calls of the current invocation, in order
    report_activities, \* store table: the activity rows, in insertion order
    next_id,          \* the id the store gives the next daily_reports row
    save_pc,          \* per session: position in the Save Report handler
    form,             \* per session: what the data entry form holds
    validation_errors, \* per session: what validate_report_data returned
    existing,         \* per session: the rows the lookup of save_daily_report found
    report_id,        \* per session: local of save_daily_report
    save_result,      \* per session: the dictionary save_daily_report returned
    before,           \* history, per session: the pair's rows when the call began
    last_saved,       \* history, per pair: the last save that returned, and how
    export_sites,     \* the site list an export was asked for
    worksheet,        \* the matrix create_dpr_excel wrote
    stored_reports,   \* store: daily_reports with their activities, as a query returns them
    call,             \* the dashboard operation that was called, with its arguments
    returned          \* what the operation returned

entry_vars == <<report_activities, next_id, save_pc, form, validation_errors,
                existing, report_id, save_result, before, last_saved>>

\* What the cron job never touches.
matrix_vars == <<export_sites, worksheet>>

analytics_vars == <<stored_reports, call, returned>>

outside_job == <<entry_vars, matrix_vars, analytics_vars>>

vars == <<now, today, email_recipients, email_logs, daily_reports, mailbox,
          passes, faults, pc, report_date, recipients, reports_data,
          excel_data, config, idx, success, error, sent_count, failed_count,
          result, exit_code, outcome, prev, run_base, trace, outside_job>>

store  == <<email_recipients, email_logs, daily_reports>>
locals == <<report_date, recipients, reports_data, excel_data, config, idx,
            success, error, sent_count, failed_count, result>>

\* --------------------------------------------------------------- values
Sites == {"TCB-407", "TCB-436", "TCB-469", "TCB-486"}

RowKinds == { [active |-> TRUE,  report_types |-> {"daily"}],
              [active |-> TRUE,  report_types |-> {"weekly"}],
              [active |-> FALSE, report_types |-> {"daily"}] }

\* A table of n rows; row k has email k.
Row(k, kind) == [email |-> k, name |-> k, active |-> kind.active,
                 report_types |-> kind.report_types]

Tables == UNION { { [k \in 1..n |-> Row(k, f[k])] : f \in [1..n -> RowKinds] }
                  : n \in 0..MaxRecipients }

NoReports == {}
NoExcel   == [compiled |-> FALSE, rows |-> {}, report_date |-> 0]
NoConfig  == [smtp_username |-> FALSE, smtp_password |-> FALSE,
              sender_email |-> FALSE, read |-> FALSE]
NoResult  == [returned |-> FALSE, total |-> 0, sent |-> 0, failed |-> 0,
              message |-> "none"]
NoPrev    == [outcome |-> "none", exit_code |-> 0]

NoMessage == [to |-> 0, attachment |-> NoExcel, filename |-> <<>>,
              subject |-> <<>>]

Event(op, rcpt, ok, handed) ==
    [op |-> op, rcpt |-> rcpt, ok |-> ok, handed |-> handed, msg |-> NoMessage]

\* A call of send_email_with_attachment, with the message it was given.
SendEvent(ok, handed, msg) ==
    [op |-> "send", rcpt |-> msg.to, ok |-> ok, handed |-> handed, msg |-> msg]

\* ------------------------------------------------------- pure functions
\* get_ist_time: the wall clock converted to Asia/Kolkata.
get_ist_time(utc) == (utc + IstOffset) % (24 * 60)

hour(t)   == t \div 60
minute(t) == t % 60
abs(x)    == IF x < 0 THEN -x ELSE x

should_send_mut_wide(utc) ==
    hour(get_ist_time(utc)) = target_hour
    /\ abs(minute(get_ist_time(utc)) - target_minute) <= tolerance + 1

should_send_mut_hour_only(utc) == hour(get_ist_time(utc)) = target_hour

should_send_daily_report(utc) ==
    LET t == get_ist_time(utc)
    IN  hour(t) = target_hour /\ abs(minute(t) - target_minute) <= tolerance

\* validate_smtp_config: the first missing required field, in order.
validate_mut_no_sender(cfg) ==
    IF ~cfg.smtp_username THEN <<FALSE, "missing smtp_username">>
    ELSE IF ~cfg.smtp_password THEN <<FALSE, "missing smtp_password">>
    ELSE <<TRUE, "">>

validate_smtp_config(cfg) ==
    IF ~cfg.smtp_username THEN <<FALSE, "missing smtp_username">>
    ELSE IF ~cfg.smtp_password THEN <<FALSE, "missing smtp_password">>
    ELSE IF ~cfg.sender_email THEN <<FALSE, "missing sender_email">>
    ELSE <<TRUE, "">>

\* The rows of a sequence whose email is in keep, in order.
RECURSIVE SelectRows(_, _)
SelectRows(rows, keep) ==
    IF rows = <<>> THEN <<>>
    ELSE IF Head(rows).email \in keep
         THEN <<Head(rows)>> \o SelectRows(Tail(rows), keep)
         ELSE SelectRows(Tail(rows), keep)

get_recipients_mut_any_state(table, report_type) ==
    SelectRows(table,
        {table[k].email : k \in {j \in DOMAIN table :
                                   report_type \in table[j].report_types}})

\* get_active_recipients on a successful query: .eq('active', True) in the
\* store, then the report_types filter in the program.
get_active_recipients(table, report_type) ==
    LET data == SelectRows(table,
                    {table[k].email : k \in {j \in DOMAIN table : table[j].active}})
    IN  SelectRows(data,
            {data[k].email : k \in {j \in DOMAIN data :
                                      report_type \in data[j].report_types}})

\* get_reports_from_db on a successful query.
get_reports_from_db(reports, start_date, end_date, sites) ==
    { r \in reports : /\ r.report_date >= start_date
                      /\ r.report_date <= end_date
                      /\ r.site_code \in sites }

\* `if not recipients:` of send_daily_report_to_all.
no_recipients_mut_never(list) == FALSE

no_recipients(list) == list = <<>>

\* The for loop goes on to the next recipient whatever the last send did.
loop_continues_mut_abort(i, n, ok) == i < n /\ ok

loop_continues(i, n, ok) == i < n

filename(d) == <<d, "-DPR.xlsx">>
subject(d)  == <<"MAHSR-T3 Daily Progress Report - ", d>>

\* create_dpr_excel(...).getvalue(): the bytes are a function of the rows and
\* the date.
create_dpr_bytes(reports, d) ==
    [compiled |-> TRUE, rows |-> reports, report_date |-> d]

\* The arguments of one send_email_with_attachment call of the loop: the
\* locals excel_data, filename and subject computed before the loop.
message_mut_refetch(to, excel, d) ==
    [to |-> to,
     attachment |-> create_dpr_bytes(
                        get_reports_from_db(daily_reports, d, d, Sites), d),
     filename |-> filename(d), subject |-> subject(d)]

message_for(to, excel, d) ==
    [to |-> to, attachment |-> excel, filename |-> filename(d),
     subject |-> subject(d)]

\* supabase.table('email_logs').insert(row).execute()
insert_mut_replace(table, row) == <<row>>

insert_email_log(table, row) == Append(table, row)

\* The row log_email_send inserts.
log_row(rcpt, d, status, msg) ==
    [recipient_email |-> rcpt, subject |-> subject(d), report_date |-> d,
     attachment_name |-> filename(d), status |-> status, error_message |-> msg]

\* The dictionary send_daily_report_to_all returns after the loop.
\* A result that counts only the recipients whose outcome reached the log.
send_result_mut_logged(n, sent, failed) ==
    LET lost == Cardinality({ k \in DOMAIN trace :
                               trace[k].op = "log" /\ ~trace[k].ok })
    IN  [returned |-> TRUE, total |-> n - lost,
         sent |-> IF sent > lost THEN sent - lost ELSE 0, failed |-> failed,
         message |-> "Sent n of m emails"]

send_result(n, sent, failed) ==
    [returned |-> TRUE, total |-> n, sent |-> sent, failed |-> failed,
     message |-> "Sent n of m emails"]

\* ------------------------------------------------- data entry: values
\* The browser sessions of the site engineers.
Sessions == {1, 2}

EntrySites == {"TCB-407", "TCB-436"}

\* The first activities of the form's catalog.
ACTIVITY_CONFIG == <<"Segment Casting", "Segment Demolding">>

WEATHER_OPTIONS == {"Clear", "Cloudy"}

\* One element of activities_data; q = <<target, achieved, cumulative>>.
Entry(name, q) ==
    [activity_name |-> name, target |-> q[1], achieved |-> q[2],
     cumulative |-> q[3]]

\* activities_data as the form builds it: one entry per catalog activity, in
\* catalog order.
ActivityLists(quantities) ==
    { [k \in DOMAIN ACTIVITY_CONFIG |-> Entry(ACTIVITY_CONFIG[k], q[k])] :
        q \in [DOMAIN ACTIVITY_CONFIG -> quantities] }

\* Quantities typed into a form: nothing; target and achieved; cumulative
\* only; achieved above target.
QuantitySamples == { <<0, 0, 0>>, <<2, 1, 0>>, <<0, 0, 1>>, <<1, 2, 2>> }

SampleForms ==
    [site_code : EntrySites, report_date : {1}, weather : WEATHER_OPTIONS,
     total_workers : {25}, activities_data : ActivityLists(QuantitySamples)]

\* Every quantity from -1 to MaxQty, with valid and invalid headers.
AllQuantities == (-1..MaxQty) \X (-1..MaxQty) \X (-1..MaxQty)

AllForms ==
    [site_code : {"TCB-407"}, report_date : {1, 2}, weather : {"", "Clear"},
     total_workers : {-1, 25}, activities_data : ActivityLists(AllQuantities)]

NoForm == [site_code |-> "", report_date |-> 0, weather |-> "",
           total_workers |-> 0, activities_data |-> <<>>]

NoSaveResult == [returned |-> FALSE, success |-> FALSE, text |-> ""]

Pairs == EntrySites \X {1, 2}

NoSave == [saved |-> FALSE, activities_data |-> <<>>]

NoPairState == [reports |-> {}, activities |-> <<>>]

\* ----------------------------------------- data entry: pure functions
Error(scope, text) == <<scope, text>>

\* The checks of one activity, in the order of the code.
activity_errors_mut_no_exceed(a) ==
    (IF a.target < 0
     THEN <<Error(a.activity_name, "Target cannot be negative")>> ELSE <<>>)
    \o (IF a.achieved < 0
        THEN <<Error(a.activity_name, "Achieved cannot be negative")>> ELSE <<>>)
    \o (IF a.cumulative < 0
        THEN <<Error(a.activity_name, "Cumulative cannot be negative")>> ELSE <<>>)

activity_errors(a) ==
    (IF a.achieved > a.target /\ a.target > 0
     THEN <<Error(a.activity_name, "Achieved quantity cannot exceed target")>>
     ELSE <<>>)
    \o (IF a.target < 0
        THEN <<Error(a.activity_name, "Target cannot be negative")>> ELSE <<>>)
    \o (IF a.achieved < 0
        THEN <<Error(a.activity_name, "Achieved cannot be negative")>> ELSE <<>>)
    \o (IF a.cumulative < 0
        THEN <<Error(a.activity_name, "Cumulative cannot be negative")>> ELSE <<>>)

RECURSIVE all_activity_errors(_)
all_activity_errors(activities_data) ==
    IF activities_data = <<>> THEN <<>>
    ELSE activity_errors(Head(activities_data))
         \o all_activity_errors(Tail(activities_data))

\* validate_report_data; the date widget always yields a date, so `not
\* report_date` is never true.
validate_report_data(d, weather, total_workers, activities_data, current_date) ==
    (IF d > current_date
     THEN <<Error("report", "Report date cannot be in the future")>> ELSE <<>>)
    \o (IF weather = ""
        THEN <<Error("report", "Weather condition is required")>> ELSE <<>>)
    \o (IF total_workers < 0
        THEN <<Error("report", "Total workers cannot be negative")>> ELSE <<>>)
    \o (IF activities_data = <<>>
        THEN <<Error("report", "At least one activity must be defined")>>
        ELSE <<>>)
    \o (IF ~\E k \in DOMAIN activities_data :
               \/ activities_data[k].target > 0
               \/ activities_data[k].achieved > 0
               \/ activities_data[k].cumulative > 0
        THEN <<Error("report", "At least one activity must have data entered")>>
        ELSE <<>>)
    \o all_activity_errors(activities_data)

\* .eq("report_date", ...).eq("site_code", ...) on daily_reports.
select_report(table, d, site) ==
    { r \in table : r.report_date = d /\ r.site_code = site }

\* report_data as a row of daily_reports.
report_row(id, f) ==
    [id |-> id, site_code |-> f.site_code, report_date |-> f.report_date,
     weather |-> f.weather, total_workers |-> f.total_workers]

\* .update(report_data).eq("id", report_id)
update_report(table, id, f) ==
    { IF r.id = id THEN report_row(id, f) ELSE r : r \in table }

\* .delete().eq("report_id", report_id) on report_activities.
delete_mut_nothing(table, id) == table

delete_activities(table, id) ==
    LET Kept(r) == r.report_id # id
    IN  SelectSeq(table, Kept)

\* The rows built from activities_data: only entries with a positive field.
to_insert_mut_everything(activities_data, id) ==
    [k \in DOMAIN activities_data |->
        [report_id |-> id, activity_name |-> activities_data[k].activity_name,
         target |-> activities_data[k].target,
         achieved |-> activities_data[k].achieved,
         cumulative |-> activities_data[k].cumulative]]

activities_to_insert(activities_data, id) ==
    LET Reported(a) == a.target > 0 \/ a.achieved > 0 \/ a.cumulative > 0
        row(a) == [report_id |-> id, activity_name |-> a.activity_name,
                   target |-> a.target, achieved |-> a.achieved,
                   cumulative |-> a.cumulative]
        kept == SelectSeq(activities_data, Reported)
    IN  [k \in DOMAIN kept |-> row(kept[k])]

\* The rows of the store that belong to a (site, date) pair.
PairState(reports, activities, site, d) ==
    LET mine == select_report(reports, d, site)
        Mine(r) == r.report_id \in { m.id : m \in mine }
    IN  [reports |-> mine, activities |-> SelectSeq(activities, Mine)]

\* ------------------------------------------------ matrix: values
\* The first activities of the compiler's catalog, in its order.
activities_map == <<"Segment Casting", "Segment Demolding">>

\* Quantities of a stored activity, in thousandths of the unit: 2.0, 1.0, 1.0
\* and 1.004, 1.0, 2.004.
ExportQuantities == { <<2000, 1000, 1000>>, <<1004, 1000, 2004>> }

\* The activity names the store holds: the catalog's and one that is not in
\* the catalog.
ExportNames == {"Segment Casting", "Segment Demolding", "Site Clearing"}

\* The activities of one fetched report: the rows the store holds for it:
\* none, one of any name and quantities, or two of different names in either
\* order.
ExportActivities ==
    LET rows == { Entry(n, q) : n \in ExportNames, q \in ExportQuantities }
    IN  {<<>>} \cup { <<a>> : a \in rows }
        \cup { <<Entry(n[1], <<2000, 1000, 1000>>),
                 Entry(n[2], <<1004, 1000, 2004>>)>> :
                  n \in { x \in ExportNames \X ExportNames : x[1] # x[2] } }

\* What a report says about its day.
DayNotes(d) ==
    IF d = 1 THEN [weather |-> "Clear", total_workers |-> 25,
                   remarks |-> "Casting in progress"]
    ELSE [weather |-> "Cloudy", total_workers |-> 30,
          remarks |-> "Stopped by rain"]

\* report_dict of get_reports_from_db.
ExportReports ==
    { [site_code |-> s, report_date |-> d, weather |-> DayNotes(d).weather,
       total_workers |-> DayNotes(d).total_workers,
       remarks |-> DayNotes(d).remarks, activities |-> a] :
        s \in EntrySites, d \in {1, 2}, a \in ExportActivities }

\* The lists get_reports_from_db can return: at most MaxReports reports, no
\* two of one (site, date) pair.
ReportLists ==
    UNION { { l \in [1..n -> ExportReports] :
                \A i \in 1..n : \A j \in 1..n :
                    (l[i].site_code = l[j].site_code
                       /\ l[i].report_date = l[j].report_date) => i = j }
            : n \in 0..MaxReports }

\* The site lists the exports are asked for.
SiteLists == { <<"TCB-407", "TCB-436">>, <<"TCB-436", "TCB-407">>,
               <<"TCB-407">> }

NoSheet == [compiled |-> FALSE, header |-> <<>>, rows |-> <<>>,
            total |-> <<>>, remarks |-> <<>>]

\* ------------------------------------------ matrix: pure functions
\* reports_by_site.get(site, []): the reports of a site, in list order.
reports_by_site(reports, site) ==
    LET OfSite(r) == r.site_code = site
    IN  SelectSeq(reports, OfSite)

\* The activities of a list of reports, report after report.
RECURSIVE activities_of(_)
activities_of(reports) ==
    IF reports = <<>> THEN <<>>
    ELSE Head(reports).activities \o activities_of(Tail(reports))

\* x += float(activity.get(field, 0)) over a list of activities.
RECURSIVE sum_of(_, _)
sum_of(activities, field) ==
    IF activities = <<>> THEN 0
    ELSE Head(activities)[field] + sum_of(Tail(activities), field)

\* if cumulative_val > cumulative_max: cumulative_max = cumulative_val
RECURSIVE max_from(_, _)
max_from(activities, cumulative_max) ==
    IF activities = <<>> THEN cumulative_max
    ELSE max_from(Tail(activities),
                  IF Head(activities).cumulative > cumulative_max
                  THEN Head(activities).cumulative ELSE cumulative_max)

\* The three cells of an activity row for one site.
cell_mut_cumulative_sum(reports, activity_name, site) ==
    LET Named(a) == a.activity_name = activity_name
        found == SelectSeq(activities_of(reports_by_site(reports, site)), Named)
    IN  [target |-> sum_of(found, "target"),
         achieved |-> sum_of(found, "achieved"),
         cumulative |-> sum_of(found, "cumulative")]

cell(reports, activity_name, site) ==
    LET Named(a) == a.activity_name = activity_name
        found == SelectSeq(activities_of(reports_by_site(reports, site)), Named)
    IN  [target |-> sum_of(found, "target"),
         achieved |-> sum_of(found, "achieved"),
         cumulative |-> max_from(found, 0)]

\* The three cells of the TOTAL row for one site.
total_cell(reports, site) ==
    LET all == activities_of(reports_by_site(reports, site))
    IN  [target |-> sum_of(all, "target"),
         achieved |-> sum_of(all, "achieved"),
         cumulative |-> sum_of(all, "cumulative")]

\* remark_text of a site with reports: the site, and the weather, workers and
\* remarks of latest_report = site_reports[-1].
remark_line(site, site_reports) ==
    LET latest_report == site_reports[Len(site_reports)]
    IN  [site |-> site, weather |-> latest_report.weather,
         workers |-> latest_report.total_workers,
         remarks |-> latest_report.remarks]

\* The lines of the remarks block: one for every site of the list that has
\* a report.
RECURSIVE remarks_block(_, _)
remarks_block(reports, sites) ==
    IF sites = <<>> THEN <<>>
    ELSE LET site_reports == reports_by_site(reports, Head(sites))
         IN  (IF site_reports # <<>>
              THEN <<remark_line(Head(sites), site_reports)>> ELSE <<>>)
             \o remarks_block(reports, Tail(sites))

\* The rows of a sheet that shows what the data holds: one row for every
\* activity name of the reports.
matrix_mut_rows_of_data(reports, sites) ==
    LET names == { a.activity_name :
                     a \in { activities_of(reports)[i] :
                               i \in DOMAIN activities_of(reports) } }
        order == CHOOSE f \in [1..Cardinality(names) -> names] :
                     \A i, j \in DOMAIN f : f[i] = f[j] => i = j
    IN  [compiled |-> TRUE,
         header |-> sites,
         rows |-> [k \in DOMAIN order |->
                     [activity_name |-> order[k],
                      cells |-> [c \in DOMAIN sites |->
                                   cell(reports, order[k], sites[c])]]],
         total |-> [c \in DOMAIN sites |-> total_cell(reports, sites[c])],
         remarks |-> remarks_block(reports, sites)]

\* The site header, the activity rows, the TOTAL row and the remarks block
\* create_dpr_excel writes.
matrix_of(reports, sites) ==
    [compiled |-> TRUE,
     header |-> sites,
     rows |-> [k \in DOMAIN activities_map |->
                 [activity_name |-> activities_map[k],
                  cells |-> [c \in DOMAIN sites |->
                               cell(reports, activities_map[k], sites[c])]]],
     total |-> [c \in DOMAIN sites |-> total_cell(reports, sites[c])],
     remarks |-> remarks_block(reports, sites)]

\* --------------------------------------------- analytics: values
\* A row of report_activities as the store returns it with its report. The
\* unit of a row is what the form wrote, whatever the catalog says.
StoredRow(name, q) ==
    [activity_name |-> name, unit |-> "Sq.m", target |-> q[1],
     achieved |-> q[2], cumulative |-> q[3]]

\* A row of daily_reports with its report_activities nested (here under
\* activities, as in report_dict).
StoredReport(site, d, activities) ==
    [site_code |-> site, report_date |-> d, weather |-> DayNotes(d).weather,
     total_workers |-> DayNotes(d).total_workers,
     remarks |-> DayNotes(d).remarks, activities |-> activities]

\* The tables of at most MaxReports reports, no two of one (site, date)
\* pair, whose reports hold one of the given activity lists.
StoredTables(activity_lists) ==
    LET reports == { StoredReport(s, d, a) :
                       s \in EntrySites, d \in {1, 2}, a \in activity_lists }
    IN  UNION { { l \in [1..n -> reports] :
                    \A i \in 1..n : \A j \in 1..n :
                        (l[i].site_code = l[j].site_code
                           /\ l[i].report_date = l[j].report_date) => i = j }
                : n \in 0..MaxReports }

\* Stores for the activity view: reports without activities, with one
\* activity of the catalog or outside it, with two catalog activities, and
\* with an activity outside the catalog before one of the catalog.
ActivityStores ==
    LET q1 == <<2000, 1000, 1000>>
        q2 == <<1004, 1000, 2004>>
        names == activities_map \o <<"Site Clearing">>
    IN  StoredTables(
            {<<>>}
            \cup { <<StoredRow(names[k], q)>> : k \in DOMAIN names, q \in {q1, q2} }
            \cup { <<StoredRow(names[1], q1), StoredRow(names[2], q2)>>,
                   <<StoredRow(names[3], q1), StoredRow(names[1], q2)>> })

\* Stores for the site view: reports without activities or with one
\* activity whose achieved is 40 %, 50 %, 70 %, 90 % or 99.6 % of its target,
\* or whose target is 0.
SiteStores ==
    StoredTables(
        {<<>>}
        \cup { <<StoredRow(activities_map[1], q)>> :
                 q \in { <<1000, 400, 3000>>, <<2000, 1000, 1000>>,
                         <<1000, 700, 700>>, <<1000, 900, 900>>,
                         <<1004, 1000, 2004>>, <<0, 0, 1000>> } })

\* The site lists and the date ranges a view is asked for.
ViewSites == SiteLists \cup { <<"TCB-436">>, <<>> }
ViewRanges == { <<1, 2>>, <<1, 1>>, <<2, 2>> }

\* selected_activities: None, or a list of names.
NoSelection == [given |-> FALSE, names |-> <<>>]
Selection(names) == [given |-> TRUE, names |-> names]
Selections ==
    { NoSelection, Selection(<<>>), Selection(<<activities_map[2]>>),
      Selection(<<activities_map[2], activities_map[1]>>) }

\* A month is a span of DaysInMonth days: month m holds the days
\* (m - 1) * DaysInMonth + 1 .. m * DaysInMonth.
monthrange(month) == <<(month - 1) * DaysInMonth + 1, month * DaysInMonth>>

NoCall == [op |-> "none"]
NoReturn == [done |-> FALSE]

\* ------------------------------------------ analytics: pure functions
\* The unit the catalog of get_activity_wise_metrics gives an activity.
unit_of(activity_name) == "Nos"

elements(list) == { list[i] : i \in DOMAIN list }

\* n / d to the nearest integer, a tie to the even neighbour (n >= 0, d > 0).
round_div(n, d) ==
    LET q == n \div d
        r == n % d
    IN  IF 2 * r > d \/ (2 * r = d /\ q % 2 = 1) THEN q + 1 ELSE q

\* round(x, 2) of a quantity in thousandths, in thousandths.
round2(x) == 10 * round_div(x, 10)

\* (achieved / target) * 100 if target > 0, else 0: a ratio num / den.
progress_of(achieved, target) ==
    IF target > 0 THEN [num |-> 100 * achieved, den |-> target]
    ELSE [num |-> 0, den |-> 1]

\* round(progress, 2), in thousandths of a percent.
round2_progress(progress) == 10 * round_div(100 * progress.num, progress.den)

\* progress >= percent
at_least(progress, percent) == progress.num >= percent * progress.den

\* .in_('site_code', sites)
in_sites(reports, sites) ==
    LET Wanted(r) == r.site_code \in elements(sites)
    IN  SelectSeq(reports, Wanted)

\* .gte('report_date', start_date).lte('report_date', end_date)
in_range(reports, start_date, end_date) ==
    LET Inside(r) == start_date <= r.report_date /\ r.report_date <= end_date
    IN  SelectSeq(reports, Inside)

\* The greatest report date of a list of reports, 0 for None.
RECURSIVE last_date(_, _)
last_date(reports, last_report_date) ==
    IF reports = <<>> THEN last_report_date
    ELSE last_date(Tail(reports),
                   IF last_report_date = 0
                        \/ Head(reports).report_date > last_report_date
                   THEN Head(reports).report_date ELSE last_report_date)

\* last_report_date.strftime('%d-%m-%Y') if last_report_date else 'N/A'
strftime(last_report_date) ==
    IF last_report_date = 0 THEN <<"N/A">> ELSE <<"%d-%m-%Y", last_report_date>>

\* status of get_site_wise_metrics, without the coloured dot that precedes
\* the words.
status_mut_above(reports, progress) ==
    LET above(percent) == progress.num > percent * progress.den
    IN  IF Len(reports) > 0
        THEN IF above(90) THEN "Excellent"
             ELSE IF above(70) THEN "On Track"
             ELSE IF above(50) THEN "Needs Attention"
             ELSE "Critical"
        ELSE "No Data"

status_of(reports, progress) ==
    IF Len(reports) > 0
    THEN IF at_least(progress, 90) THEN "Excellent"
         ELSE IF at_least(progress, 70) THEN "On Track"
         ELSE IF at_least(progress, 50) THEN "Needs Attention"
         ELSE "Critical"
    ELSE "No Data"

\* The dictionary get_site_wise_metrics appends for one site.
site_entry(stored, site, start_date, end_date) ==
    LET Of(r) == r.site_code = site
        reports == in_range(SelectSeq(stored, Of), start_date, end_date)
        all == activities_of(reports)
        target_sum == sum_of(all, "target")
        achieved_sum == sum_of(all, "achieved")
        progress == progress_of(achieved_sum, target_sum)
    IN  [site_code |-> site,
         reports_count |-> Len(reports),
         target |-> round2(target_sum),
         achieved |-> round2(achieved_sum),
         cumulative |-> round2(max_from(all, 0)),
         progress |-> round2_progress(progress),
         status |-> status_of(reports, progress),
         last_report |-> strftime(last_date(reports, 0))]

get_site_mut_any_date(stored, sites, start_date, end_date) ==
    [k \in DOMAIN sites |-> site_entry(stored, sites[k], 1, 2)]

get_site_wise_metrics(stored, sites, start_date, end_date) ==
    [k \in DOMAIN sites |-> site_entry(stored, sites[k], start_date, end_date)]

\* The dictionary get_activity_wise_metrics appends for one activity.
activity_entry(reports, activity_name) ==
    LET Named(a) == a.activity_name = activity_name
        found == SelectSeq(activities_of(reports), Named)
        target_sum == sum_of(found, "target")
        achieved_sum == sum_of(found, "achieved")
    IN  [activity |-> activity_name,
         unit |-> unit_of(activity_name),
         target |-> round2(target_sum),
         achieved |-> round2(achieved_sum),
         cumulative |-> round2(max_from(found, 0)),
         progress |-> round2_progress(progress_of(achieved_sum, target_sum))]

\* if selected_activities: keep the catalog entries it names. An empty list
\* is false, as None is.
filtered_map(selected_activities) ==
    LET Selected(name) == name \in elements(selected_activities.names)
    IN  IF selected_activities.given /\ selected_activities.names # <<>>
        THEN SelectSeq(activities_map, Selected) ELSE activities_map

activity_mut_cumulative_sum(stored, sites, start_date, end_date, selected_activities) ==
    LET reports == in_range(in_sites(stored, sites), start_date, end_date)
        map == filtered_map(selected_activities)
        Summed(name) ==
            LET Named(a) == a.activity_name = name
            IN  [activity_entry(reports, name) EXCEPT !.cumulative =
                   round2(sum_of(SelectSeq(activities_of(reports), Named),
                                 "cumulative"))]
    IN  [k \in DOMAIN map |-> Summed(map[k])]

activity_mut_all_sites(stored, sites, start_date, end_date, selected_activities) ==
    LET reports == in_range(stored, start_date, end_date)
        map == filtered_map(selected_activities)
    IN  [k \in DOMAIN map |-> activity_entry(reports, map[k])]

get_activity_wise_metrics(stored, sites, start_date, end_date, selected_activities) ==
    LET reports == in_range(in_sites(stored, sites), start_date, end_date)
        map == filtered_map(selected_activities)
    IN  [k \in DOMAIN map |-> activity_entry(reports, map[k])]

\* The dictionary get_dashboard_metrics returns.
get_dashboard_metrics(stored, sites, day) ==
    LET all_reports == in_sites(stored, sites)
        reports_today == in_range(all_reports, day, day)
        total_target == sum_of(activities_of(all_reports), "target")
        total_achieved == sum_of(activities_of(all_reports), "achieved")
    IN  [total_sites |-> Len(sites),
         total_reports |-> Len(all_reports),
         reports_today |-> Len(reports_today),
         overall_progress |->
             round2_progress(progress_of(total_achieved, total_target)),
         total_target |-> round2(total_target),
         total_achieved |-> round2(total_achieved)]

dashboard_failed(sites) ==
    [total_sites |-> Len(sites), total_reports |-> 0, reports_today |-> 0,
     overall_progress |-> 0, total_target |-> 0, total_achieved |-> 0]

\* sorted(daily_data.keys())
sorted(dates) ==
    LET n == Cardinality(dates)
    IN  CHOOSE f \in [1..n -> dates] : \A i, j \in 1..n : i < j => f[i] < f[j]

\* dates, targets, achieved of get_daily_trend_data.
get_daily_trend_data(stored, sites, start_date, end_date) ==
    LET reports == in_range(in_sites(stored, sites), start_date, end_date)
        dates == sorted({ reports[i].report_date : i \in DOMAIN reports })
        daily(d, field) == sum_of(activities_of(in_range(reports, d, d)), field)
    IN  <<dates,
          [k \in DOMAIN dates |-> daily(dates[k], "target")],
          [k \in DOMAIN dates |-> daily(dates[k], "achieved")]>>

\* cumulative_data of get_cumulative_progress: the greatest cumulative of
\* every activity name of the reports.
get_cumulative_progress(stored, sites, end_date) ==
    LET reports == in_range(in_sites(stored, sites), 0, end_date)
        all == activities_of(reports)
        names == { all[i].activity_name : i \in DOMAIN all }
    IN  [name \in names |->
            LET Named(a) == a.activity_name = name
            IN  max_from(SelectSeq(all, Named), 0)]

\* The dictionary get_monthly_summary returns.
get_monthly_summary(stored, sites, month) ==
    LET reports == in_range(in_sites(stored, sites), monthrange(month)[1],
                            monthrange(month)[2])
        all == activities_of(reports)
        working_days == { reports[i].report_date : i \in DOMAIN reports }
        workers == [i \in DOMAIN reports |-> [n |-> reports[i].total_workers]]
        total_workers == sum_of(workers, "n")
    IN  [month |-> month,
         working_days |-> Cardinality(working_days),
         total_target |-> round2(sum_of(all, "target")),
         total_achieved |-> round2(sum_of(all, "achieved")),
         progress |-> round2_progress(progress_of(sum_of(all, "achieved"),
                                                  sum_of(all, "target"))),
         avg_workers |-> IF Cardinality(working_days) > 0
                         THEN 10 * round_div(100 * total_workers,
                                             Cardinality(working_days))
                         ELSE 0,
         total_reports |-> Len(reports)]

\* What an operation returns when a query raises.
on_exception_mut_propagate(op, sites) ==
    [raised |-> TRUE, value |-> "Exception"]

on_exception(op, sites) ==
    [raised |-> FALSE,
     value |-> CASE op = "get_dashboard_metrics" -> dashboard_failed(sites)
                 [] op = "get_daily_trend_data" -> <<<<>>, <<>>, <<>>>>
                 [] OTHER -> <<>>]

\* ----------------------------------------------------------------- Init
\* No dashboard view has been asked for.
InitNoView ==
    /\ stored_reports = <<>>
    /\ call = NoCall
    /\ returned = NoReturn

\* No export has been asked for.
InitNoExport ==
    /\ export_sites = <<>>
    /\ worksheet = NoSheet

\* No session has touched the form; the activity table is empty.
InitEntry ==
    /\ report_activities = <<>>
    /\ next_id = 1
    /\ save_pc = [e \in Sessions |-> "idle"]
    /\ form = [e \in Sessions |-> NoForm]
    /\ validation_errors = [e \in Sessions |-> <<>>]
    /\ existing = [e \in Sessions |-> {}]
    /\ report_id = [e \in Sessions |-> 0]
    /\ save_result = [e \in Sessions |-> NoSaveResult]
    /\ before = [e \in Sessions |-> NoPairState]
    /\ last_saved = [p \in Pairs |-> NoSave]

Init ==
    /\ now = 240
    /\ today = 1
    /\ email_recipients \in Tables
    /\ email_logs = <<>>
    /\ daily_reports = { [site_code |-> "TCB-407", report_date |-> 0],
                         [site_code |-> "TCB-407", report_date |-> 1],
                         [site_code |-> "TCB-436", report_date |-> 0] }
    /\ mailbox = <<>>
    /\ passes = 0
    /\ faults = 0
    /\ pc = "idle"
    /\ report_date = 0
    /\ recipients = <<>>
    /\ reports_data = NoReports
    /\ excel_data = NoExcel
    /\ config = NoConfig
    /\ idx = 0
    /\ success = FALSE
    /\ error = ""
    /\ sent_count = 0
    /\ failed_count = 0
    /\ result = NoResult
    /\ exit_code = 0
    /\ outcome = "none"
    /\ prev = NoPrev
    /\ run_base = [email_logs |-> 0, mailbox |-> 0]
    /\ trace = <<>>
    /\ InitEntry
    /\ InitNoExport
    /\ InitNoView

\* ------------------------------------------------------------- helpers
\* The environment injects a failure only while the budget lasts.
Inject(failed) ==
    /\ failed => faults < MaxFaults
    /\ faults' = IF failed THEN faults + 1 ELSE faults

\* `return code` of main().
Return(code, which) ==
    /\ exit_code' = code
    /\ outcome' = which
    /\ pc' = "returned"

ClearLocals ==
    /\ report_date' = 0
    /\ recipients' = <<>>
    /\ reports_data' = NoReports
    /\ excel_data' = NoExcel
    /\ config' = NoConfig
    /\ idx' = 0
    /\ success' = FALSE
    /\ error' = ""
    /\ sent_count' = 0
    /\ failed_count' = 0
    /\ result' = NoResult

\* What the except clauses of send_email_with_attachment return.
SendOutcomes == {"ok", "auth", "smtp", "other"}

send_message(o) ==
    CASE o = "ok"    -> "Email sent successfully"
      [] o = "auth"  -> "SMTP authentication failed"
      [] o = "smtp"  -> "SMTP error"
      [] o = "other" -> "Error sending email"

\* ------------------------------------------------------------- actions
\* main(): the time gate.
main_time_gate ==
    /\ pc = "idle"
    /\ should_send_daily_report(now) => passes < MaxRuns
    /\ IF should_send_daily_report(now)
       THEN /\ passes' = passes + 1
            /\ pc' = "client"
            /\ UNCHANGED <<exit_code, outcome>>
       ELSE /\ Return(EXIT_SKIPPED, "skipped")
            /\ UNCHANGED passes
    /\ run_base' = [email_logs |-> Len(email_logs), mailbox |-> Len(mailbox)]
    /\ UNCHANGED <<now, today, store, mailbox, faults, locals, prev, trace>>
    /\ UNCHANGED outside_job

\* main(): the store credentials and create_client.
main_create_client ==
    /\ pc = "client"
    /\ \E env \in {"ok", "missing", "raises"} :
         /\ Inject(env # "ok")
         /\ IF env = "ok"
            THEN /\ report_date' = today - 1
                 /\ pc' = "resolve"
                 /\ UNCHANGED <<exit_code, outcome>>
            ELSE /\ Return(EXIT_ERROR, "error")
                 /\ UNCHANGED report_date
    /\ UNCHANGED <<now, today, store, mailbox, passes, recipients, reports_data,
                   excel_data, config, idx, success, error, sent_count,
                   failed_count, result, prev, run_base, trace>>
    /\ UNCHANGED outside_job

\* send_daily_report_to_all: recipients = get_active_recipients(...), and the
\* early return when there is none.
resolve_recipients ==
    /\ pc = "resolve"
    /\ \E ok \in BOOLEAN :
         /\ Inject(~ok)
         /\ recipients' = IF ok THEN get_active_recipients(email_recipients, "daily")
                                ELSE <<>>
         /\ trace' = Append(trace, Event("read_recipients", 0, ok, FALSE))
    /\ IF no_recipients(recipients')
       THEN /\ result' = [returned |-> TRUE, total |-> 0, sent |-> 0, failed |-> 0,
                          message |-> "No active recipients found"]
            /\ pc' = "summary"
       ELSE /\ pc' = "fetch"
            /\ UNCHANGED result
    /\ UNCHANGED <<now, today, store, mailbox, passes, report_date, reports_data,
                   excel_data, config, idx, success, error, sent_count,
                   failed_count, exit_code, outcome, prev, run_base>>
    /\ UNCHANGED outside_job

\* reports_data = get_reports_from_db(...): a failed query yields [].
fetch_reports ==
    /\ pc = "fetch"
    /\ \E ok \in BOOLEAN :
         /\ Inject(~ok)
         /\ reports_data' = IF ok THEN get_reports_from_db(daily_reports,
                                           report_date, report_date, Sites)
                                  ELSE {}
         /\ trace' = Append(trace, Event("fetch_reports", 0, ok, FALSE))
    /\ pc' = "compile"
    /\ UNCHANGED <<now, today, store, mailbox, passes, report_date, recipients,
                   excel_data, config, idx, success, error, sent_count,
                   failed_count, result, exit_code, outcome, prev, run_base>>
    /\ UNCHANGED outside_job

\* excel_file = create_dpr_excel(...): an exception reaches main()'s except.
compile_excel ==
    /\ pc = "compile"
    /\ \E ok \in BOOLEAN :
         /\ Inject(~ok)
         /\ trace' = Append(trace, Event("compile", 0, ok, FALSE))
         /\ IF ok
            THEN /\ excel_data' = create_dpr_bytes(reports_data, report_date)
                 /\ pc' = "config"
                 /\ UNCHANGED <<exit_code, outcome>>
            ELSE /\ Return(EXIT_ERROR, "error")
                 /\ UNCHANGED excel_data
    /\ UNCHANGED <<now, today, store, mailbox, passes, report_date, recipients,
                   reports_data, config, idx, success, error, sent_count,
                   failed_count, result, prev, run_base>>
    /\ UNCHANGED outside_job

\* config = get_smtp_config(); sent_count = 0; failed_count = 0.
\* int(os.getenv('SMTP_PORT')) raises on a malformed port.
read_smtp_config ==
    /\ pc = "config"
    /\ \E u \in BOOLEAN, p \in BOOLEAN, s \in BOOLEAN, port \in BOOLEAN :
         /\ Inject(~(u /\ p /\ s /\ port))
         /\ IF port
            THEN /\ config' = [smtp_username |-> u, smtp_password |-> p,
                               sender_email |-> s, read |-> TRUE]
                 /\ idx' = 1
                 /\ pc' = "send"
                 /\ UNCHANGED <<exit_code, outcome>>
            ELSE /\ Return(EXIT_ERROR, "error")
                 /\ UNCHANGED <<config, idx>>
    /\ sent_count' = 0
    /\ failed_count' = 0
    /\ UNCHANGED <<now, today, store, mailbox, passes, report_date, recipients,
                   reports_data, excel_data, success, error, result, prev, run_base,
                   trace>>
    /\ UNCHANGED outside_job

\* One iteration, first half: send_email_with_attachment and the counters.
send_email_with_attachment ==
    /\ pc = "send"
    /\ LET rcpt  == recipients[idx]
           msg   == message_for(rcpt.email, excel_data, report_date)
           valid == validate_smtp_config(config)
       IN  IF ~valid[1]
           THEN /\ success' = FALSE
                /\ error' = valid[2]
                /\ trace' = Append(trace, SendEvent(FALSE, FALSE, msg))
                /\ UNCHANGED <<mailbox, faults>>
           ELSE \E o \in SendOutcomes :
                  /\ Inject(o # "ok")
                  /\ success' = (o = "ok")
                  /\ error' = send_message(o)
                  /\ mailbox' = IF o = "ok"
                                THEN Append(mailbox, [to |-> msg.to,
                                         report_date |-> msg.attachment.report_date])
                                ELSE mailbox
                  /\ trace' = Append(trace, SendEvent(o = "ok", TRUE, msg))
    /\ sent_count' = IF success' THEN sent_count + 1 ELSE sent_count
    /\ failed_count' = IF success' THEN failed_count ELSE failed_count + 1
    /\ pc' = "log"
    /\ UNCHANGED <<now, today, store, passes, report_date, recipients,
                   reports_data, excel_data, config, idx, result, exit_code,
                   outcome, prev, run_base>>
    /\ UNCHANGED outside_job

\* One iteration, second half: log_email_send (a failed insert is printed and
\* dropped), then the next recipient or the return after the loop.
log_email_send ==
    /\ pc = "log"
    /\ LET rcpt == recipients[idx]
       IN  \E ok \in BOOLEAN :
             /\ Inject(~ok)
             /\ email_logs' =
                  IF ok
                  THEN insert_email_log(email_logs,
                              log_row(rcpt.email, report_date,
                                      IF success THEN "sent" ELSE "failed",
                                      IF success THEN "null" ELSE error))
                  ELSE email_logs
             /\ trace' = Append(trace, Event("log", rcpt.email, ok, FALSE))
    /\ IF loop_continues(idx, Len(recipients), success)
       THEN /\ idx' = idx + 1
            /\ pc' = "send"
            /\ UNCHANGED result
       ELSE /\ result' = send_result(Len(recipients), sent_count, failed_count)
            /\ pc' = "summary"
            /\ UNCHANGED idx
    /\ UNCHANGED <<now, today, email_recipients, daily_reports, mailbox, passes,
                   report_date, recipients, reports_data, excel_data, config,
                   success, error, sent_count, failed_count, exit_code, outcome,
                   prev, run_base>>
    /\ UNCHANGED outside_job

\* main(): the exit code from the result.
main_summary ==
    /\ pc = "summary"
    /\ IF result.failed > 0
       THEN Return(EXIT_WARNING, "warning")
       ELSE Return(EXIT_SUCCESS, "success")
    /\ UNCHANGED <<now, today, store, mailbox, passes, faults, locals, prev,
                   run_base, trace>>
    /\ UNCHANGED outside_job

\* sys.exit(main()): the process ends; the next invocation starts afresh.
process_exit ==
    /\ pc = "returned"
    /\ pc' = "idle"
    /\ prev' = [outcome |-> outcome, exit_code |-> exit_code]
    /\ outcome' = "none"
    /\ exit_code' = 0
    /\ trace' = <<>>
    /\ run_base' = [email_logs |-> Len(email_logs), mailbox |-> Len(mailbox)]
    /\ ClearLocals
    /\ UNCHANGED <<now, today, store, mailbox, passes, faults>>
    /\ UNCHANGED outside_job

\* The clock moves on between the invocations of one day.
Tick ==
    /\ pc = "idle"
    /\ \E t \in Times : t > now /\ now' = t
    /\ UNCHANGED <<today, store, mailbox, passes, faults, pc, locals, exit_code,
                   outcome, prev, run_base, trace>>
    /\ UNCHANGED outside_job

\* A site engineer saves the report of a site while the job runs: the
\* daily_reports table gains a row (counted against the environment's budget).
NewReport == [site_code |-> "TCB-469", report_date |-> 0]

engineer_saves_report ==
    /\ NewReport \notin daily_reports
    /\ Inject(TRUE)
    /\ daily_reports' = daily_reports \cup {NewReport}
    /\ UNCHANGED <<now, today, email_recipients, email_logs, mailbox, passes, pc,
                   locals, exit_code, outcome, prev, run_base, trace>>
    /\ UNCHANGED outside_job

Next ==
    \/ engineer_saves_report
    \/ main_time_gate
    \/ main_create_client
    \/ resolve_recipients
    \/ fetch_reports
    \/ compile_excel
    \/ read_smtp_config
    \/ send_email_with_attachment
    \/ log_email_send
    \/ main_summary
    \/ process_exit
    \/ Tick

Spec == Init /\ [][Next]_vars

\* ------------------------------------------------ data entry: actions
job_vars == <<now, today, email_recipients, email_logs, mailbox, passes, pc,
              locals, exit_code, outcome, prev, run_base, trace>>

PairOf(e) == <<form[e].site_code, form[e].report_date>>

\* `return {...}` of save_daily_report, and the history of the pair.
SaveReturn(e, ok, text) ==
    /\ save_result' = [save_result EXCEPT
                         ![e] = [returned |-> TRUE, success |-> ok, text |-> text]]
    /\ save_pc' = [save_pc EXCEPT ![e] = "returned"]
    /\ last_saved' = [last_saved EXCEPT ![PairOf(e)] =
                         IF ok THEN [saved |-> TRUE,
                                     activities_data |-> form[e].activities_data]
                         ELSE NoSave]

\* The engineer fills the form; one session works at a time.
fill_form(e) ==
    /\ \A o \in Sessions : save_pc[o] = "idle"
    /\ \E f \in SampleForms : form' = [form EXCEPT ![e] = f]
    /\ save_pc' = [save_pc EXCEPT ![e] = "filled"]
    /\ UNCHANGED <<job_vars, matrix_vars, analytics_vars,
                   daily_reports, faults, report_activities, next_id,
                   validation_errors, existing, report_id, save_result, before,
                   last_saved>>

\* The Save Report button: validate_report_data, then either the errors are
\* shown or save_daily_report is entered.
click_save_report(e) ==
    /\ save_pc[e] = "filled"
    /\ LET f == form[e]
           errors == validate_report_data(f.report_date, f.weather,
                         f.total_workers, f.activities_data, today)
       IN  /\ validation_errors' = [validation_errors EXCEPT ![e] = errors]
           /\ IF errors # <<>>
              THEN /\ save_pc' = [save_pc EXCEPT ![e] = "shown"]
                   /\ UNCHANGED before
              ELSE /\ save_pc' = [save_pc EXCEPT ![e] = "lookup"]
                   /\ before' = [before EXCEPT ![e] =
                                   PairState(daily_reports, report_activities,
                                             f.site_code, f.report_date)]
    /\ UNCHANGED <<job_vars, matrix_vars, analytics_vars,
                   daily_reports, faults, report_activities, next_id,
                   form, existing, report_id, save_result, last_saved>>

\* existing = ...select("id").eq(...).eq(...).Single().execute(): the one row
\* of the pair, no row, or an exception (also raised on several rows).
save_lookup(e) ==
    /\ save_pc[e] = "lookup"
    /\ LET rows == select_report(daily_reports, form[e].report_date,
                                 form[e].site_code)
       IN  \E ok \in BOOLEAN :
             /\ Inject(~ok)
             /\ IF ok /\ Cardinality(rows) <= 1
                THEN /\ existing' = [existing EXCEPT ![e] = rows]
                     /\ report_id' = [report_id EXCEPT ![e] =
                                        IF rows = {} THEN 0
                                        ELSE (CHOOSE r \in rows : TRUE).id]
                     /\ save_pc' = [save_pc EXCEPT ![e] =
                                      IF rows = {} THEN "insert_report"
                                      ELSE "update_report"]
                     /\ UNCHANGED <<save_result, last_saved>>
                ELSE /\ SaveReturn(e, FALSE, "exception")
                     /\ UNCHANGED <<existing, report_id>>
    /\ UNCHANGED <<job_vars, matrix_vars, analytics_vars,
                   daily_reports, report_activities, next_id, form,
                   validation_errors, before>>

\* supabase.table("daily_reports").update(report_data).eq("id", report_id)
save_update_report(e) ==
    /\ save_pc[e] = "update_report"
    /\ \E ok \in BOOLEAN :
         /\ Inject(~ok)
         /\ IF ok
            THEN /\ daily_reports' = update_report(daily_reports, report_id[e],
                                                   form[e])
                 /\ save_pc' = [save_pc EXCEPT ![e] = "delete_activities"]
                 /\ UNCHANGED <<save_result, last_saved>>
            ELSE /\ SaveReturn(e, FALSE, "exception")
                 /\ UNCHANGED daily_reports
    /\ UNCHANGED <<job_vars, matrix_vars, analytics_vars, report_activities, next_id, form,
                   validation_errors, existing, report_id, before>>

\* supabase.table("report_activities").delete().eq("report_id", report_id)
save_delete_activities(e) ==
    /\ save_pc[e] = "delete_activities"
    /\ \E ok \in BOOLEAN :
         /\ Inject(~ok)
         /\ IF ok
            THEN /\ report_activities' = delete_activities(report_activities,
                                                           report_id[e])
                 /\ save_pc' = [save_pc EXCEPT ![e] = "insert_activities"]
                 /\ UNCHANGED <<save_result, last_saved>>
            ELSE /\ SaveReturn(e, FALSE, "exception")
                 /\ UNCHANGED report_activities
    /\ UNCHANGED <<job_vars, matrix_vars, analytics_vars,
                   daily_reports, next_id, form, validation_errors,
                   existing, report_id, before>>

\* result = supabase.table("daily_reports").insert(report_data).execute(),
\* and the return when result.data is empty.
save_insert_report(e) ==
    /\ save_pc[e] = "insert_report"
    /\ \E o \in {"ok", "empty", "raises"} :
         /\ Inject(o # "ok")
         /\ IF o = "ok"
            THEN /\ daily_reports' = daily_reports
                                       \cup {report_row(next_id, form[e])}
                 /\ report_id' = [report_id EXCEPT ![e] = next_id]
                 /\ next_id' = next_id + 1
                 /\ save_pc' = [save_pc EXCEPT ![e] = "insert_activities"]
                 /\ UNCHANGED <<save_result, last_saved>>
            ELSE /\ SaveReturn(e, FALSE, IF o = "empty"
                                         THEN "Failed to create report"
                                         ELSE "exception")
                 /\ UNCHANGED <<daily_reports, report_id, next_id>>
    /\ UNCHANGED <<job_vars, matrix_vars, analytics_vars,
                   report_activities, form, validation_errors,
                   existing, before>>

\* activities_to_insert, the insert when it is not empty, and the success
\* return.
save_insert_activities(e) ==
    /\ save_pc[e] = "insert_activities"
    /\ LET rows == activities_to_insert(form[e].activities_data, report_id[e])
       IN  IF rows = <<>>
           THEN /\ SaveReturn(e, TRUE, "Report saved successfully")
                /\ UNCHANGED <<report_activities, faults>>
           ELSE \E ok \in BOOLEAN :
                  /\ Inject(~ok)
                  /\ IF ok
                     THEN /\ report_activities' = report_activities \o rows
                          /\ SaveReturn(e, TRUE, "Report saved successfully")
                     ELSE /\ SaveReturn(e, FALSE, "exception")
                          /\ UNCHANGED report_activities
    /\ UNCHANGED <<job_vars, matrix_vars, analytics_vars,
                   daily_reports, next_id, form, validation_errors,
                   existing, report_id, before>>

\* The page is drawn again with the message of the handler; the form is new.
rerun(e) ==
    /\ save_pc[e] \in {"shown", "returned"}
    /\ save_pc' = [save_pc EXCEPT ![e] = "idle"]
    /\ form' = [form EXCEPT ![e] = NoForm]
    /\ validation_errors' = [validation_errors EXCEPT ![e] = <<>>]
    /\ existing' = [existing EXCEPT ![e] = {}]
    /\ report_id' = [report_id EXCEPT ![e] = 0]
    /\ save_result' = [save_result EXCEPT ![e] = NoSaveResult]
    /\ before' = [before EXCEPT ![e] = NoPairState]
    /\ UNCHANGED <<job_vars, matrix_vars, analytics_vars,
                   daily_reports, faults, report_activities, next_id,
                   last_saved>>

\* The scheduler at rest, as far as the data entry pages are concerned.
InitJobIdle ==
    /\ now = 240
    /\ today = 1
    /\ email_recipients = <<>>
    /\ email_logs = <<>>
    /\ mailbox = <<>>
    /\ passes = 0
    /\ faults = 0
    /\ pc = "idle"
    /\ report_date = 0
    /\ recipients = <<>>
    /\ reports_data = NoReports
    /\ excel_data = NoExcel
    /\ config = NoConfig
    /\ idx = 0
    /\ success = FALSE
    /\ error = ""
    /\ sent_count = 0
    /\ failed_count = 0
    /\ result = NoResult
    /\ exit_code = 0
    /\ outcome = "none"
    /\ prev = NoPrev
    /\ run_base = [email_logs |-> 0, mailbox |-> 0]
    /\ trace = <<>>
    /\ InitNoExport
    /\ InitNoView

\* Saves one after another from one session, on an empty store.
InitSave ==
    /\ InitJobIdle
    /\ daily_reports = {}
    /\ InitEntry

NextSave ==
    \E e \in {1} :
        \/ fill_form(e)
        \/ click_save_report(e)
        \/ save_lookup(e)
        \/ save_update_report(e)
        \/ save_delete_activities(e)
        \/ save_insert_report(e)
        \/ save_insert_activities(e)
        \/ rerun(e)

SpecSave == InitSave /\ [][NextSave]_vars

\* One press of the Save Report button on any form, on an empty store or on
\* a store that has the report of the day.
StoredBefore ==
    [reports |-> {report_row(1, [site_code |-> "TCB-407", report_date |-> 1,
                                 weather |-> "Cloudy", total_workers |-> 25])},
     activities |-> activities_to_insert(
                        <<Entry(ACTIVITY_CONFIG[1], <<2, 1, 1>>)>>, 1)]

InitButton ==
    /\ InitJobIdle
    /\ \E st \in {NoPairState, StoredBefore} :
          /\ daily_reports = st.reports
          /\ report_activities = st.activities
          /\ next_id = Cardinality(st.reports) + 1
    /\ save_pc = [e \in Sessions |-> IF e = 1 THEN "filled" ELSE "idle"]
    /\ form \in { [e \in Sessions |-> IF e = 1 THEN f ELSE NoForm] :
                    f \in AllForms }
    /\ validation_errors = [e \in Sessions |-> <<>>]
    /\ existing = [e \in Sessions |-> {}]
    /\ report_id = [e \in Sessions |-> 0]
    /\ save_result = [e \in Sessions |-> NoSaveResult]
    /\ before = [e \in Sessions |-> NoPairState]
    /\ last_saved = [p \in Pairs |-> NoSave]

NextButton ==
    \E e \in {1} :
        \/ click_save_report(e)
        \/ save_lookup(e)
        \/ save_update_report(e)
        \/ save_delete_activities(e)
        \/ save_insert_report(e)
        \/ save_insert_activities(e)
        \/ rerun(e)

SpecButton == InitButton /\ [][NextButton]_vars

\* Two sessions have filled the form for the same site and day, each with its
\* own quantities, and both press Save Report; the pair has no report yet or
\* has the report of the day.
InitRace ==
    /\ InitJobIdle
    /\ \E st \in {NoPairState, StoredBefore} :
          /\ daily_reports = st.reports
          /\ report_activities = st.activities
          /\ next_id = Cardinality(st.reports) + 1
    /\ save_pc = [e \in Sessions |-> "filled"]
    /\ form \in [Sessions -> { f \in SampleForms : f.site_code = "TCB-407"
                                                    /\ f.weather = "Clear" }]
    /\ validation_errors = [e \in Sessions |-> <<>>]
    /\ existing = [e \in Sessions |-> {}]
    /\ report_id = [e \in Sessions |-> 0]
    /\ save_result = [e \in Sessions |-> NoSaveResult]
    /\ before = [e \in Sessions |-> NoPairState]
    /\ last_saved = [p \in Pairs |-> NoSave]

\* The steps of the two calls in any order.
NextRace ==
    \E e \in Sessions :
        \/ click_save_report(e)
        \/ save_lookup(e)
        \/ save_update_report(e)
        \/ save_delete_activities(e)
        \/ save_insert_report(e)
        \/ save_insert_activities(e)

SpecRace == InitRace /\ [][NextRace]_vars

\* ------------------------------------------------------ matrix: actions
\* create_dpr_excel(reports_data, start_date, end_date, sites)
create_dpr_excel ==
    /\ ~worksheet.compiled
    /\ worksheet' = matrix_of(reports_data, export_sites)
    /\ UNCHANGED <<now, today, store, mailbox, passes, faults, pc, locals,
                   exit_code, outcome, prev, run_base, trace, entry_vars,
                   export_sites, analytics_vars>>

\* An export of any list of fetched reports for any of the site lists.
InitMatrix ==
    /\ now = 240
    /\ today = 1
    /\ email_recipients = <<>>
    /\ email_logs = <<>>
    /\ daily_reports = {}
    /\ mailbox = <<>>
    /\ passes = 0
    /\ faults = 0
    /\ pc = "idle"
    /\ report_date = 0
    /\ recipients = <<>>
    /\ reports_data \in ReportLists
    /\ excel_data = NoExcel
    /\ config = NoConfig
    /\ idx = 0
    /\ success = FALSE
    /\ error = ""
    /\ sent_count = 0
    /\ failed_count = 0
    /\ result = NoResult
    /\ exit_code = 0
    /\ outcome = "none"
    /\ prev = NoPrev
    /\ run_base = [email_logs |-> 0, mailbox |-> 0]
    /\ trace = <<>>
    /\ InitEntry
    /\ export_sites \in SiteLists
    /\ worksheet = NoSheet
    /\ InitNoView

NextMatrix == create_dpr_excel

SpecMatrix == InitMatrix /\ [][NextMatrix]_vars

\* --------------------------------------------------- analytics: actions
\* What a dashboard view leaves alone: everything but its own call.
outside_view == <<job_vars, daily_reports, faults, entry_vars, matrix_vars,
                  stored_reports>>

\* The operation returns: a value, or an exception that reaches the caller.
Returned(raises, normal, on_error) ==
    returned' = [done |-> TRUE, query_raised |-> raises,
                 raised |-> IF raises THEN on_error.raised ELSE FALSE,
                 value |-> IF raises THEN on_error.value ELSE normal]

\* get_dashboard_metrics(supabase, sites)
call_get_dashboard_metrics(sites, raises) ==
    /\ ~returned.done
    /\ call' = [op |-> "get_dashboard_metrics", sites |-> sites]
    /\ Returned(raises, get_dashboard_metrics(stored_reports, sites, today),
                on_exception("get_dashboard_metrics", sites))
    /\ UNCHANGED outside_view

\* get_site_wise_metrics(supabase, sites, start_date, end_date); it queries
\* once per site, so an empty site list never raises.
call_get_site_wise_metrics(sites, start_date, end_date, raises) ==
    /\ ~returned.done
    /\ raises => sites # <<>>
    /\ call' = [op |-> "get_site_wise_metrics", sites |-> sites,
                start_date |-> start_date, end_date |-> end_date]
    /\ Returned(raises,
                get_site_wise_metrics(stored_reports, sites, start_date, end_date),
                on_exception("get_site_wise_metrics", sites))
    /\ UNCHANGED outside_view

\* get_activity_wise_metrics(supabase, sites, start_date, end_date,
\*                           selected_activities)
call_get_activity_wise_metrics(sites, start_date, end_date, selected_activities, raises) ==
    /\ ~returned.done
    /\ call' = [op |-> "get_activity_wise_metrics", sites |-> sites,
                start_date |-> start_date, end_date |-> end_date,
                selected_activities |-> selected_activities]
    /\ Returned(raises,
                get_activity_wise_metrics(stored_reports, sites, start_date,
                                          end_date, selected_activities),
                on_exception("get_activity_wise_metrics", sites))
    /\ UNCHANGED outside_view

\* get_daily_trend_data(supabase, sites, start_date, end_date)
call_get_daily_trend_data(sites, start_date, end_date, raises) ==
    /\ ~returned.done
    /\ call' = [op |-> "get_daily_trend_data", sites |-> sites,
                start_date |-> start_date, end_date |-> end_date]
    /\ Returned(raises,
                get_daily_trend_data(stored_reports, sites, start_date, end_date),
                on_exception("get_daily_trend_data", sites))
    /\ UNCHANGED outside_view

\* get_cumulative_progress(supabase, sites, end_date)
call_get_cumulative_progress(sites, end_date, raises) ==
    /\ ~returned.done
    /\ call' = [op |-> "get_cumulative_progress", sites |-> sites,
                end_date |-> end_date]
    /\ Returned(raises, get_cumulative_progress(stored_reports, sites, end_date),
                on_exception("get_cumulative_progress", sites))
    /\ UNCHANGED outside_view

\* get_monthly_summary(supabase, sites, year, month)
call_get_monthly_summary(sites, month, raises) ==
    /\ ~returned.done
    /\ call' = [op |-> "get_monthly_summary", sites |-> sites, month |-> month]
    /\ Returned(raises, get_monthly_summary(stored_reports, sites, month),
                on_exception("get_monthly_summary", sites))
    /\ UNCHANGED outside_view

\* The scheduler at rest and the data entry pages untouched.
InitRest ==
    /\ now = 240
    /\ today = 1
    /\ email_recipients = <<>>
    /\ email_logs = <<>>
    /\ daily_reports = {}
    /\ mailbox = <<>>
    /\ passes = 0
    /\ faults = 0
    /\ pc = "idle"
    /\ report_date = 0
    /\ recipients = <<>>
    /\ excel_data = NoExcel
    /\ config = NoConfig
    /\ idx = 0
    /\ success = FALSE
    /\ error = ""
    /\ sent_count = 0
    /\ failed_count = 0
    /\ result = NoResult
    /\ exit_code = 0
    /\ outcome = "none"
    /\ prev = NoPrev
    /\ run_base = [email_logs |-> 0, mailbox |-> 0]
    /\ trace = <<>>
    /\ InitEntry

\* One view of the dashboard over a store of reports; any query may raise.
InitAnalytics ==
    /\ InitRest
    /\ reports_data = NoReports
    /\ export_sites = <<>>
    /\ worksheet = NoSheet
    /\ stored_reports \in SiteStores
    /\ call = NoCall
    /\ returned = NoReturn

NextAnalytics ==
    \/ \E sites \in ViewSites : \E raises \in BOOLEAN :
          call_get_dashboard_metrics(sites, raises)
    \/ \E sites \in ViewSites : \E range \in ViewRanges : \E raises \in BOOLEAN :
          call_get_site_wise_metrics(sites, range[1], range[2], raises)
    \/ \E sites \in ViewSites : \E range \in ViewRanges : \E raises \in BOOLEAN :
          call_get_activity_wise_metrics(sites, range[1], range[2],
                                         NoSelection, raises)
    \/ \E sites \in ViewSites : \E range \in ViewRanges : \E raises \in BOOLEAN :
          call_get_daily_trend_data(sites, range[1], range[2], raises)
    \/ \E sites \in ViewSites : \E end_date \in {1, 2} : \E raises \in BOOLEAN :
          call_get_cumulative_progress(sites, end_date, raises)
    \/ \E sites \in ViewSites : \E month \in {1, 2} : \E raises \in BOOLEAN :
          call_get_monthly_summary(sites, month, raises)

SpecAnalytics == InitAnalytics /\ [][NextAnalytics]_vars

\* The activity view, and the export of both sites, over one store of
\* reports: the export is given every report of the store.
InitActivity ==
    /\ InitRest
    /\ stored_reports \in ActivityStores
    /\ reports_data = stored_reports
    /\ export_sites = <<"TCB-407", "TCB-436">>
    /\ worksheet = NoSheet
    /\ call = NoCall
    /\ returned = NoReturn

NextActivity ==
    \/ create_dpr_excel
    \/ \E sites \in {<<"TCB-407">>, <<"TCB-436">>, <<"TCB-407", "TCB-436">>} :
          \E range \in {<<1, 2>>, <<2, 2>>} : \E selected \in Selections :
              call_get_activity_wise_metrics(sites, range[1], range[2],
                                             selected, FALSE)

SpecActivity == InitActivity /\ [][NextActivity]_vars

\* ------------------------------------------------------- observations
IsSend(e) == e.op = "send"
Sends     == SelectSeq(trace, IsSend)

\* The rows this invocation has added to the delivery log.
RunLogRows == SubSeq(email_logs, run_base.email_logs + 1, Len(email_logs))

\* 10:25..10:35 in UTC+05:30, written out in minutes of the day.
InWindow(utc) == ((utc + 5 * 60 + 30) % (24 * 60)) \in (10 * 60 + 25)..(10 * 60 + 35)

CredentialMissing ==
    config.read /\ ~(config.smtp_username /\ config.smtp_password /\ config.sender_email)

NoDailyRecipient ==
    \A k \in DOMAIN email_recipients :
        ~(email_recipients[k].active /\ "daily" \in email_recipients[k].report_types)

StatusOf(ok) == IF ok THEN "sent" ELSE "failed"

\* ---------------------------------------------------------------- C1
\* C1: in a run of send_daily_report_to_all over a non-empty recipient list,
\* whichever sends fail, the send attempts made so far are to the first
\* recipients of the list, one each and in order; and the returned result has
\* total = number of recipients = number of attempts, sent = successful
\* attempts, failed = failed attempts, sent + failed = total.
Thm_C1_OneAttemptEach ==
    LET s == Sends
    IN  /\ Len(s) <= Len(recipients)
        /\ \A k \in 1..Len(s) : s[k].rcpt = recipients[k].email
        /\ (result.returned /\ recipients # <<>>) =>
              /\ Len(s) = Len(recipients)
              /\ result.total = Len(recipients)
              /\ result.sent = Cardinality({k \in 1..Len(s) : s[k].ok})
              /\ result.failed = Cardinality({k \in 1..Len(s) : ~s[k].ok})
              /\ result.sent + result.failed = result.total

Wit_C1_FailThenSend ==
    /\ pc = "returned"
    /\ result.returned
    /\ Len(recipients) >= 2
    /\ Len(Sends) >= 2
    /\ ~Sends[1].ok
    /\ Sends[2].ok
    /\ result.sent >= 1
    /\ result.failed >= 1

\* ---------------------------------------------------------------- C2
\* C2: in every state of a run, every delivery-log row of the run belongs to a
\* completed send attempt of the run, and at most one completed attempt has
\* no log row yet.
Cex_C2_LogFollowsSend ==
    LET s == Sends
        rows == RunLogRows
    IN  /\ \A k \in 1..Len(rows) :
              \E j \in 1..Len(s) : /\ s[j].rcpt = rows[k].recipient_email
                                   /\ rows[k].status = StatusOf(s[j].ok)
        /\ Len(s) - Len(rows) <= 1

\* ---------------------------------------------------------------- C3
\* C3: a run that entered the send loop with n recipients returns a summary
\* and has added exactly n delivery-log rows, the k-th for the k-th recipient
\* with the status of that recipient's attempt.
Cex_C3_LogRowPerRecipient ==
    (pc = "returned" /\ idx >= 1) =>
        /\ result.returned
        /\ Len(RunLogRows) = Len(recipients)
        /\ \A k \in 1..Len(RunLogRows) :
              /\ RunLogRows[k].recipient_email = recipients[k].email
              /\ k <= Len(Sends)
              /\ RunLogRows[k].status = StatusOf(Sends[k].ok)

\* ---------------------------------------------------------------- C4
\* C4: at most one invocation of the day passes the time gate, and no
\* recipient receives the report of one report date more than once.
Cex_C4_OnePassPerDay ==
    /\ passes <= 1
    /\ \A a \in DOMAIN mailbox : \A b \in DOMAIN mailbox :
          (mailbox[a].to = mailbox[b].to
             /\ mailbox[a].report_date = mailbox[b].report_date) => a = b

\* ---------------------------------------------------------------- C5
\* The gate lets exactly the invocations inside the window through; one that
\* returns outside it has made no call.
GateExact ==
    /\ (pc \notin {"idle", "returned"}) => InWindow(now)
    /\ (pc = "returned" /\ InWindow(now)) => outcome # "skipped"
    /\ (pc = "returned" /\ ~InWindow(now)) =>
          /\ outcome = "skipped"
          /\ exit_code = EXIT_SKIPPED
          /\ trace = <<>>
          /\ recipients = <<>>
          /\ ~excel_data.compiled
          /\ ~result.returned
          /\ Len(email_logs) = run_base.email_logs
          /\ Len(mailbox) = run_base.mailbox

\* No step the job takes outside the window touches the store or the channel
\* (the daily_reports table changes only by a site engineer's save).
OutsideWindowFrame ==
    ~InWindow(now) =>
        /\ email_recipients' = email_recipients
        /\ email_logs' = email_logs
        /\ mailbox' = mailbox
        /\ daily_reports' # daily_reports => engineer_saves_report

\* C5: an invocation goes past the time gate exactly when the time in IST is
\* 10:25..10:35; at any other time main() returns the skipped result having
\* made no call (no recipient read, no fetch, no compilation, no send, no log
\* write), and no step taken at such a time changes the store, the delivery
\* log or the channel.
Thm_C5_TimeGate == [][OutsideWindowFrame]_vars /\ []GateExact

Wit_C5_SkippedTwice ==
    /\ pc = "returned"
    /\ outcome = "skipped"
    /\ prev.outcome = "skipped"
    /\ now = 360

\* ---------------------------------------------------------------- C6
\* C6: after a run that returned a summary, main() returns the hard-error
\* signal when every send failed, a nonzero signal other than the hard-error
\* one when some but not all sends failed, and 0 otherwise.
Cex_C6_TieredExit ==
    (pc = "returned" /\ result.returned) =>
        /\ (result.total > 0 /\ result.failed = result.total)
              => exit_code = EXIT_ERROR
        /\ (0 < result.failed /\ result.failed < result.total)
              => (exit_code # 0 /\ exit_code # EXIT_ERROR)
        /\ result.failed = 0 => exit_code = 0

\* ---------------------------------------------------------------- C7
\* C7: two invocations of main() that end in different outcomes (success,
\* partial failure, skipped, hard error) return different signals.
Cex_C7_DistinctSignals ==
    (pc = "returned" /\ prev.outcome # "none" /\ prev.outcome # outcome)
        => prev.exit_code # exit_code

\* ---------------------------------------------------------------- C8
\* A query of the run (recipients or reports) raised.
ReadFailed ==
    \E k \in DOMAIN trace :
        trace[k].op \in {"read_recipients", "fetch_reports"} /\ ~trace[k].ok

\* C8: once a store read of the run has failed (recipients or reports), no
\* message is handed to the channel in that run and the run returns the
\* hard-error signal, never the 'no recipients' or 'sent' result.
Cex_C8_ReadFailureIsHardError ==
    ReadFailed =>
        /\ \A k \in DOMAIN trace : ~(trace[k].op = "send" /\ trace[k].handed)
        /\ pc = "returned" => (outcome = "error" /\ exit_code = EXIT_ERROR)
        /\ ~result.returned

Thm_C10_NoRecipients ==
    (NoDailyRecipient /\ trace # <<>>) =>
        /\ pc \in {"summary", "returned"}
        /\ Len(trace) = 1
        /\ trace[1].op = "read_recipients"
        /\ result.returned
        /\ result.total = 0 /\ result.sent = 0 /\ result.failed = 0
        /\ result.message = "No active recipients found"
        /\ reports_data = NoReports
        /\ ~excel_data.compiled
        /\ ~config.read
        /\ Len(email_logs) = run_base.email_logs
        /\ Len(mailbox) = run_base.mailbox
        /\ (pc = "returned") => (outcome = "success" /\ exit_code = EXIT_SUCCESS)

Wit_C10_NoneSubscribed ==
    /\ NoDailyRecipient
    /\ email_recipients # <<>>
    /\ pc = "returned"
    /\ trace # <<>>
    /\ trace[1].ok
    /\ result.returned

\* --------------------------------------------------------------- C11
\* Position of a call in the order of a run.
Phase(op) ==
    CASE op = "read_recipients" -> 1
      [] op = "fetch_reports"   -> 2
      [] op = "compile"         -> 3
      [] op = "send"            -> 4
      [] op = "log"             -> 4

\* The four ways a run ends.
EndSkip         == outcome = "skipped" /\ trace = <<>> /\ ~result.returned
EndNoRecipients == result.returned /\ result.total = 0 /\ Len(trace) = 1
EndCompleted    == result.returned /\ result.total > 0
                     /\ Len(Sends) = result.total
EndHardError    == outcome = "error" /\ exit_code = EXIT_ERROR
                     /\ ~result.returned

Endings ==
    Cardinality({ e \in {"skip", "none", "completed", "error"} :
                    \/ e = "skip" /\ EndSkip
                    \/ e = "none" /\ EndNoRecipients
                    \/ e = "completed" /\ EndCompleted
                    \/ e = "error" /\ EndHardError })

\* C11: the calls of a run are made in the order time gate, recipient
\* resolution, fetch and compilation, sends with their log writes; no call is
\* made before the gate has passed, no fetch, compilation or send before the
\* recipients were resolved to a non-empty list, no send before the
\* compilation succeeded; and a run that has returned ended in exactly one of
\* skip, no recipients, completed, hard error.
Thm_C11_RunOrder ==
    /\ trace # <<>> =>
          /\ InWindow(now)
          /\ passes >= 1
          /\ trace[1].op = "read_recipients"
    /\ \A j \in DOMAIN trace : \A k \in DOMAIN trace :
          j < k => /\ Phase(trace[j].op) <= Phase(trace[k].op)
                   /\ Phase(trace[k].op) <= 3 =>
                         Phase(trace[j].op) < Phase(trace[k].op)
    /\ \A k \in DOMAIN trace :
          /\ Phase(trace[k].op) >= 2 => (trace[1].ok /\ recipients # <<>>)
          /\ Phase(trace[k].op) = 4 =>
                /\ excel_data.compiled
                /\ \E j \in 1..(k - 1) : trace[j].op = "compile" /\ trace[j].ok
    /\ pc \in {"fetch", "compile", "config", "send", "log"} => recipients # <<>>
    /\ pc \in {"config", "send", "log"} => excel_data.compiled
    /\ pc = "returned" => Endings = 1

Wit_C11_CompletedAfterError ==
    /\ pc = "returned"
    /\ EndCompleted
    /\ prev.outcome = "error"
    /\ Len(trace) >= 5

\* --------------------------------------------------------------- C12
CallsOf(op) == { k \in DOMAIN trace : trace[k].op = op }

FirstSend == CHOOSE k \in CallsOf("send") : \A j \in CallsOf("send") : k <= j

\* C12: in a run that has reached the send loop the reports were fetched once
\* and the matrix compiled once, both before the first send, and every send of
\* the run was given the same attachment, the same file name and the same
\* subject, whatever rows the daily_reports table has gained meanwhile.
Thm_C12_OneCompilation ==
    pc \in {"send", "log"} \/ CallsOf("send") # {} =>
        /\ Cardinality(CallsOf("fetch_reports")) = 1
        /\ Cardinality(CallsOf("compile")) = 1
        /\ excel_data = create_dpr_bytes(reports_data, report_date)
        /\ CallsOf("send") # {} =>
              /\ \A k \in CallsOf("fetch_reports") \cup CallsOf("compile") :
                    k < FirstSend
              /\ \A k \in CallsOf("send") :
                    /\ trace[k].msg.attachment = excel_data
                    /\ trace[k].msg.filename = filename(report_date)
                    /\ trace[k].msg.subject = subject(report_date)
                    /\ trace[k].msg.attachment = trace[FirstSend].msg.attachment
                    /\ trace[k].msg.filename = trace[FirstSend].msg.filename
                    /\ trace[k].msg.subject = trace[FirstSend].msg.subject

\* Two sends made, the table changed after the fetch.
Wit_C12_StoreChangedMeanwhile ==
    /\ Len(Sends) >= 2
    /\ trace[2].op = "fetch_reports"
    /\ trace[2].ok
    /\ NewReport \in daily_reports
    /\ NewReport \notin excel_data.rows
    /\ Sends[1].msg.attachment = Sends[2].msg.attachment
    /\ Sends[1].msg.to # Sends[2].msg.to

\* --------------------------------------------------------------- C13
\* The addresses of the rows of the table that are active and subscribed to
\* the daily report.
ActiveDaily ==
    { email_recipients[k].email :
        k \in { j \in DOMAIN email_recipients :
                  /\ email_recipients[j].active
                  /\ "daily" \in email_recipients[j].report_types } }

\* C13: no send is ever addressed to a recipient that is inactive or not
\* subscribed to 'daily'; a run that has reached the send loop works on
\* exactly the active 'daily' rows of the table, each once; and a completed
\* run has contacted every one of them.
Thm_C13_ExactlyActiveDaily ==
    /\ \A k \in CallsOf("send") : trace[k].rcpt \in ActiveDaily
    /\ \A k \in DOMAIN mailbox : mailbox[k].to \in ActiveDaily
    /\ \A k \in DOMAIN email_logs : email_logs[k].recipient_email \in ActiveDaily
    /\ pc \in {"fetch", "compile", "config", "send", "log"} =>
          /\ { recipients[k].email : k \in DOMAIN recipients } = ActiveDaily
          /\ Len(recipients) = Cardinality(ActiveDaily)
    /\ (pc = "returned" /\ EndCompleted) =>
          { trace[k].rcpt : k \in CallsOf("send") } = ActiveDaily

\* An inactive 'daily' row before an active 'daily' row: only the second is
\* contacted.
Wit_C13_InactiveSkipped ==
    /\ pc = "returned"
    /\ EndCompleted
    /\ Len(email_recipients) >= 2
    /\ ~email_recipients[1].active
    /\ "daily" \in email_recipients[1].report_types
    /\ email_recipients[2].active
    /\ "daily" \in email_recipients[2].report_types
    /\ Sends[1].rcpt = email_recipients[2].email

\* --------------------------------------------------------------- C14
\* The delivery log after a step extends the log before it.
LogOnlyGrows ==
    /\ Len(email_logs') >= Len(email_logs)
    /\ SubSeq(email_logs', 1, Len(email_logs)) = email_logs

\* C14: every step of the scheduler leaves the rows already in the delivery
\* log as they are; the log changes only by rows added at its end.
Thm_C14_LogAppendOnly == [][LogOnlyGrows]_vars

\* The log holds rows of an earlier run and a row of the current one.
Wit_C14_RowsOfTwoRuns ==
    /\ run_base.email_logs >= 1
    /\ Len(email_logs) > run_base.email_logs
    /\ pc = "send"

\* --------------------------------------------------------------- C15
\* A stored activity row without its report id.
AsEntry(r) ==
    [activity_name |-> r.activity_name, target |-> r.target,
     achieved |-> r.achieved, cumulative |-> r.cumulative]

StoredEntries(site, d) ==
    LET rows == PairState(daily_reports, report_activities, site, d).activities
    IN  [k \in DOMAIN rows |-> AsEntry(rows[k])]

HasQuantity(a) == a.target > 0 \/ a.achieved > 0 \/ a.cumulative > 0

InsideSave(e) ==
    save_pc[e] \in {"lookup", "update_report", "delete_activities",
                    "insert_report", "insert_activities"}

\* C15: the store never holds two daily_reports rows of one (site, date)
\* pair; and when the last save_daily_report call of a pair returned success
\* (in particular after any sequence of successful calls), the pair has one
\* row and its activity rows are the reported entries of that last save, in
\* order, and no row of an earlier save.
Thm_C15_OneReportPerPair ==
    \A p \in Pairs :
        /\ Cardinality(select_report(daily_reports, p[2], p[1])) <= 1
        /\ (last_saved[p].saved
              /\ \A e \in Sessions : InsideSave(e) => PairOf(e) # p) =>
              /\ Cardinality(select_report(daily_reports, p[2], p[1])) = 1
              /\ StoredEntries(p[1], p[2]) =
                    SelectSeq(last_saved[p].activities_data, HasQuantity)

\* A second successful save of a pair whose earlier save had an activity the
\* new one has not.
Wit_C15_ActivitiesReplaced ==
    /\ save_pc[1] = "returned"
    /\ save_result[1].success
    /\ before[1].reports # {}
    /\ \E k \in DOMAIN before[1].activities :
          \A j \in DOMAIN form[1].activities_data :
              form[1].activities_data[j].activity_name =
                  before[1].activities[k].activity_name
                => ~HasQuantity(form[1].activities_data[j])
    /\ StoredEntries(form[1].site_code, form[1].report_date) # <<>>

\* --------------------------------------------------------------- C16
\* C16: when a save_daily_report call for a pair that had a report returns
\* failure, the pair's daily_reports row and its activity rows are what they
\* were when the call began.
Cex_C16_FailedUpdateChangesNothing ==
    \A e \in Sessions :
        (save_pc[e] = "returned" /\ ~save_result[e].success
           /\ before[e].reports # {}) =>
            PairState(daily_reports, report_activities, form[e].site_code,
                      form[e].report_date) = before[e]

\* --------------------------------------------------------------- C18
\* C18: no row of report_activities has target = achieved = cumulative = 0,
\* and when a save has returned success every entry it submitted with a
\* positive target, achieved or cumulative is a row of its report.
Thm_C18_SparseStorage ==
    /\ \A k \in DOMAIN report_activities :
          ~(report_activities[k].target = 0
              /\ report_activities[k].achieved = 0
              /\ report_activities[k].cumulative = 0)
    /\ \A e \in Sessions :
          (save_pc[e] = "returned" /\ save_result[e].success) =>
              \A j \in DOMAIN form[e].activities_data :
                  LET a == form[e].activities_data[j]
                  IN  (a.target > 0 \/ a.achieved > 0 \/ a.cumulative > 0) =>
                        \E k \in DOMAIN report_activities :
                            /\ report_activities[k].report_id = report_id[e]
                            /\ AsEntry(report_activities[k]) = a

\* A successful save of one all-zero entry and one entry with only the
\* cumulative positive: one row stored.
Wit_C18_ZeroEntryDropped ==
    /\ save_pc[1] = "returned"
    /\ save_result[1].success
    /\ \E j \in DOMAIN form[1].activities_data :
          ~HasQuantity(form[1].activities_data[j])
    /\ \E j \in DOMAIN form[1].activities_data :
          /\ form[1].activities_data[j].target = 0
          /\ form[1].activities_data[j].achieved = 0
          /\ form[1].activities_data[j].cumulative > 0
    /\ Len(StoredEntries(form[1].site_code, form[1].report_date)) = 1

\* --------------------------------------------------------------- C17
\* What the claim calls an invalid entry.
Invalid(a) ==
    \/ a.achieved > a.target /\ a.target > 0
    \/ a.target < 0
    \/ a.achieved < 0
    \/ a.cumulative < 0

Validated(e) == save_pc[e] \notin {"idle", "filled"}

\* C17: once the button has run validate_report_data on a form, every entry
\* of the form with achieved > target > 0 or a negative quantity has an error
\* with its activity name in the returned list and save_daily_report is not
\* entered; and every row of report_activities has target, achieved and
\* cumulative >= 0 and achieved <= target when target > 0.
Thm_C17_InvalidEntriesRejected ==
    /\ \A e \in Sessions :
          Validated(e) =>
              \A j \in DOMAIN form[e].activities_data :
                  Invalid(form[e].activities_data[j]) =>
                      /\ \E k \in DOMAIN validation_errors[e] :
                            validation_errors[e][k][1] =
                                form[e].activities_data[j].activity_name
                      /\ save_pc[e] = "shown"
    /\ \A k \in DOMAIN report_activities :
          /\ report_activities[k].target >= 0
          /\ report_activities[k].achieved >= 0
          /\ report_activities[k].cumulative >= 0
          /\ report_activities[k].target > 0 =>
                report_activities[k].achieved <= report_activities[k].target

\* A form whose only fault is the second activity's achieved above its
\* target: one error, naming that activity.
Wit_C17_ExceedsTargetNamed ==
    /\ save_pc[1] = "shown"
    /\ form[1].activities_data[2].achieved > form[1].activities_data[2].target
    /\ form[1].activities_data[2].target > 0
    /\ validation_errors[1] =
          <<Error(ACTIVITY_CONFIG[2], "Achieved quantity cannot exceed target")>>

\* --------------------------------------------------------------- C19
\* The sum of a site's column over the activity rows of the worksheet.
RECURSIVE ColumnSum(_, _, _)
ColumnSum(k, c, field) ==
    IF k = 0 THEN 0
    ELSE worksheet.rows[k].cells[c][field] + ColumnSum(k - 1, c, field)

\* C19: for every site of the list, the Target, Achieved and Cumulative cells
\* of the TOTAL row are the sums of the site's Target, Achieved and Cumulative
\* cells over the activity rows of the same worksheet.
Cex_C19_TotalIsColumnSum ==
    worksheet.compiled =>
        \A c \in DOMAIN export_sites :
            /\ worksheet.total[c].target =
                  ColumnSum(Len(worksheet.rows), c, "target")
            /\ worksheet.total[c].achieved =
                  ColumnSum(Len(worksheet.rows), c, "achieved")
            /\ worksheet.total[c].cumulative =
                  ColumnSum(Len(worksheet.rows), c, "cumulative")

\* --------------------------------------------------------------- C20
\* The input rows of a site and an activity name: <<report, activity>>
\* positions in reports_data.
Matching(activity_name, site) ==
    UNION { { <<i, j>> : j \in { n \in DOMAIN reports_data[i].activities :
                  reports_data[i].activities[n].activity_name = activity_name } }
            : i \in { m \in DOMAIN reports_data :
                        reports_data[m].site_code = site } }

InputValue(x, field) == reports_data[x[1]].activities[x[2]][field]

RECURSIVE InputSum(_, _)
InputSum(positions, field) ==
    IF positions = {} THEN 0
    ELSE LET x == CHOOSE y \in positions : TRUE
         IN  InputValue(x, field) + InputSum(positions \ {x}, field)

InputMax(positions, field) ==
    LET values == { InputValue(x, field) : x \in positions }
    IN  IF values = {} THEN 0
        ELSE CHOOSE v \in values : \A w \in values : v >= w

\* C20: the worksheet has a cell group for every catalog activity and every
\* site of the list; its Target and Achieved are the sums of target and
\* achieved over the input rows of that site and activity, its Cumulative is
\* the greatest cumulative of those rows, and all three are 0 when there is
\* no such row.
Thm_C20_CellSumsAndMax ==
    worksheet.compiled =>
        /\ Len(worksheet.rows) = Len(activities_map)
        /\ \A k \in DOMAIN activities_map : \A c \in DOMAIN export_sites :
              LET found == Matching(activities_map[k], export_sites[c])
                  cells == worksheet.rows[k].cells[c]
              IN  /\ worksheet.rows[k].activity_name = activities_map[k]
                  /\ cells.target = InputSum(found, "target")
                  /\ cells.achieved = InputSum(found, "achieved")
                  /\ cells.cumulative = InputMax(found, "cumulative")
                  /\ found = {} => cells = [target |-> 0, achieved |-> 0,
                                           cumulative |-> 0]

\* Two reports of the first site with different cumulatives of the first
\* activity, and no row of the second activity.
Wit_C20_TwoReportsOneCell ==
    /\ worksheet.compiled
    /\ Cardinality(Matching(activities_map[1], export_sites[1])) = 2
    /\ worksheet.rows[1].cells[1].cumulative
          < InputSum(Matching(activities_map[1], export_sites[1]), "cumulative")
    /\ worksheet.rows[1].cells[1].target = 3004
    /\ Matching(activities_map[2], export_sites[1]) = {}
    /\ worksheet.rows[2].cells[1].cumulative = 0

\* --------------------------------------------------------------- C21
\* C21: the worksheet has one activity row for every catalog activity, in
\* catalog order, followed by one TOTAL row, so catalog size + 1 rows, and one
\* Target / Achieved / Cumulative group per site of the list, in the order of
\* the list, in the header, in every activity row and in the TOTAL row,
\* whatever the reports hold.
Thm_C21_RowsAndColumnsFixed ==
    worksheet.compiled =>
        /\ Len(worksheet.rows) + 1 = Len(activities_map) + 1
        /\ \A k \in DOMAIN activities_map :
              /\ worksheet.rows[k].activity_name = activities_map[k]
              /\ DOMAIN worksheet.rows[k].cells = DOMAIN export_sites
        /\ worksheet.header = export_sites
        /\ DOMAIN worksheet.total = DOMAIN export_sites

\* One report only, of the second site of the list, naming an activity that
\* is not in the catalog and then the first catalog activity.
Wit_C21_SparseUnorderedInput ==
    /\ worksheet.compiled
    /\ Len(export_sites) = 2
    /\ Len(reports_data) = 1
    /\ reports_data[1].site_code = export_sites[2]
    /\ Len(reports_data[1].activities) = 2
    /\ reports_data[1].activities[1].activity_name \notin
          { activities_map[k] : k \in DOMAIN activities_map }
    /\ reports_data[1].activities[2].activity_name = activities_map[1]

\* --------------------------------------------------------------- C22
\* The sites of the list that have a report among reports_data, in list order.
SitesWithReports ==
    LET HasReport(site) == \E i \in DOMAIN reports_data :
                              reports_data[i].site_code = site
    IN  SelectSeq(export_sites, HasReport)

\* The positions in reports_data of the reports of a site with the greatest
\* report date.
LatestOf(site) ==
    { i \in DOMAIN reports_data :
        /\ reports_data[i].site_code = site
        /\ \A j \in DOMAIN reports_data :
              reports_data[j].site_code = site
                 => reports_data[j].report_date <= reports_data[i].report_date }

\* C22: the remarks block has one line for every site of the list that has a
\* report, in list order, and none for the others; each line shows the
\* weather, the workers and the remarks of the site's report with the
\* greatest report date, in whatever order the reports were fetched.
Cex_C22_RemarksOfLatestReport ==
    worksheet.compiled =>
        /\ Len(worksheet.remarks) = Len(SitesWithReports)
        /\ \A k \in DOMAIN SitesWithReports :
              /\ worksheet.remarks[k].site = SitesWithReports[k]
              /\ \E i \in LatestOf(SitesWithReports[k]) :
                    /\ worksheet.remarks[k].weather = reports_data[i].weather
                    /\ worksheet.remarks[k].workers = reports_data[i].total_workers
                    /\ worksheet.remarks[k].remarks = reports_data[i].remarks

\* --------------------------------------------------------------- C23
\* The rows of the store the call selects: <<report, activity>> positions in
\* stored_reports of the activities with the given name in the reports of the
\* call's sites and date range.
RowsOfCall(activity_name) ==
    UNION { { <<i, j>> : j \in { n \in DOMAIN stored_reports[i].activities :
                  stored_reports[i].activities[n].activity_name = activity_name } }
            : i \in { m \in DOMAIN stored_reports :
                        /\ stored_reports[m].site_code \in elements(call.sites)
                        /\ call.start_date <= stored_reports[m].report_date
                        /\ stored_reports[m].report_date <= call.end_date } }

StoredValue(x, field) == stored_reports[x[1]].activities[x[2]][field]

RECURSIVE StoredSum(_, _)
StoredSum(positions, field) ==
    IF positions = {} THEN 0
    ELSE LET x == CHOOSE y \in positions : TRUE
         IN  StoredValue(x, field) + StoredSum(positions \ {x}, field)

StoredMax(positions, field) ==
    LET values == { StoredValue(x, field) : x \in positions }
    IN  IF values = {} THEN 0
        ELSE CHOOSE v \in values : \A w \in values : v >= w

\* To two decimals: the nearest multiple of 0.01, in thousandths; of two
\* equally near ones, the even multiple.
ToTwoDecimals(x) ==
    LET below == x - (x % 10)
        above == below + 10
    IN  IF x - below < above - x THEN below
        ELSE IF x - below > above - x THEN above
        ELSE IF (below \div 10) % 2 = 0 THEN below ELSE above

ActivityViewReturned ==
    returned.done /\ call.op = "get_activity_wise_metrics"
        /\ ~returned.query_raised

\* C23 as stated: for every activity of the result, cumulative is the
\* greatest cumulative of the rows with that name in the selected sites and
\* date range (0 without such a row), and target and achieved are the sums
\* over the same rows.
Cex_C23_CumulativeIsMax ==
    ActivityViewReturned =>
        \A k \in DOMAIN returned.value :
            LET found == RowsOfCall(returned.value[k].activity)
            IN  /\ returned.value[k].cumulative = StoredMax(found, "cumulative")
                /\ returned.value[k].target = StoredSum(found, "target")
                /\ returned.value[k].achieved = StoredSum(found, "achieved")

\* C23, amended: for every activity of the result, cumulative is the greatest
\* cumulative of the rows with that name in the selected sites and date
\* range, to two decimals (0 without such a row), and target and achieved are
\* the sums over the same rows, to two decimals.
Thm_C23_CumulativeIsRoundedMax ==
    ActivityViewReturned =>
        \A k \in DOMAIN returned.value :
            LET found == RowsOfCall(returned.value[k].activity)
            IN  /\ returned.value[k].cumulative =
                      ToTwoDecimals(StoredMax(found, "cumulative"))
                /\ returned.value[k].target =
                      ToTwoDecimals(StoredSum(found, "target"))
                /\ returned.value[k].achieved =
                      ToTwoDecimals(StoredSum(found, "achieved"))
                /\ found = {} => returned.value[k].cumulative = 0

\* Two rows of the first catalog activity, one per site, selected by a call
\* for both sites; the greater cumulative, 2.004, is returned as 2.0.
Wit_C23_TwoRowsTwoSites ==
    /\ ActivityViewReturned
    /\ Len(call.sites) = 2
    /\ Cardinality(RowsOfCall(activities_map[1])) = 2
    /\ StoredMax(RowsOfCall(activities_map[1]), "cumulative") = 2004
    /\ StoredSum(RowsOfCall(activities_map[1]), "cumulative") = 3004
    /\ returned.value[1].activity = activities_map[1]
    /\ returned.value[1].cumulative = 2000

\* --------------------------------------------------------------- C24
\* The reports of a site in the call's inclusive date range: positions in
\* stored_reports.
ReportsOfCall(site) ==
    { i \in DOMAIN stored_reports :
        /\ stored_reports[i].site_code = site
        /\ call.start_date <= stored_reports[i].report_date
        /\ stored_reports[i].report_date <= call.end_date }

\* All their activities: <<report, activity>> positions.
SiteRowsOfCall(site) ==
    UNION { { <<i, j>> : j \in DOMAIN stored_reports[i].activities }
            : i \in ReportsOfCall(site) }

GreatestDate(positions) ==
    CHOOSE d \in { stored_reports[i].report_date : i \in positions } :
        \A i \in positions : stored_reports[i].report_date <= d

SiteViewReturned ==
    returned.done /\ call.op = "get_site_wise_metrics" /\ ~returned.query_raised

\* C24 as stated: the result has one entry per site of the list; its target
\* and achieved are the sums over all activities of the site's reports in
\* the inclusive date range, its cumulative their greatest cumulative, its
\* reports_count the number of those reports and its last_report the
\* greatest of their dates.
Cex_C24_SiteSumsAndMax ==
    SiteViewReturned =>
        /\ Len(returned.value) = Len(call.sites)
        /\ \A k \in DOMAIN call.sites :
              LET entry == returned.value[k]
                  reports == ReportsOfCall(call.sites[k])
                  found == SiteRowsOfCall(call.sites[k])
              IN  /\ entry.site_code = call.sites[k]
                  /\ entry.target = StoredSum(found, "target")
                  /\ entry.achieved = StoredSum(found, "achieved")
                  /\ entry.cumulative = StoredMax(found, "cumulative")
                  /\ entry.reports_count = Cardinality(reports)
                  /\ reports # {} =>
                        entry.last_report = <<"%d-%m-%Y", GreatestDate(reports)>>

\* C24, amended: the same, with target, achieved and cumulative to two
\* decimals, and last_report the greatest date written day-month-year, or
\* N/A for a site without a report in the range.
Thm_C24_SiteRoundedSumsAndMax ==
    SiteViewReturned =>
        /\ Len(returned.value) = Len(call.sites)
        /\ \A k \in DOMAIN call.sites :
              LET entry == returned.value[k]
                  reports == ReportsOfCall(call.sites[k])
                  found == SiteRowsOfCall(call.sites[k])
              IN  /\ entry.site_code = call.sites[k]
                  /\ entry.target = ToTwoDecimals(StoredSum(found, "target"))
                  /\ entry.achieved = ToTwoDecimals(StoredSum(found, "achieved"))
                  /\ entry.cumulative =
                        ToTwoDecimals(StoredMax(found, "cumulative"))
                  /\ entry.reports_count = Cardinality(reports)
                  /\ entry.last_report =
                        IF reports = {} THEN <<"N/A">>
                        ELSE <<"%d-%m-%Y", GreatestDate(reports)>>

\* The first site of the list has a report on each day, the later one
\* fetched first, and the call asks for the first day only.
Wit_C24_ReportOutsideRange ==
    /\ SiteViewReturned
    /\ Len(call.sites) = 2
    /\ call.start_date = 1 /\ call.end_date = 1
    /\ Len(stored_reports) = 2
    /\ stored_reports[1].site_code = call.sites[1]
    /\ stored_reports[2].site_code = call.sites[1]
    /\ stored_reports[1].report_date = 2
    /\ stored_reports[1].activities # <<>>
    /\ stored_reports[2].activities # <<>>
    /\ returned.value[1].reports_count = 1
    /\ returned.value[1].target = 1000
    /\ returned.value[2].reports_count = 0

\* --------------------------------------------------------------- C25
\* The tier the claim gives a site with reports whose activities add up to
\* the given achieved and target: progress is 100 * achieved / target, or 0
\* when the target sum is 0.
TierOf(achieved, target) ==
    LET AtLeast(percent) == target > 0 /\ 100 * achieved >= percent * target
    IN  IF AtLeast(90) THEN "Excellent"
        ELSE IF AtLeast(70) THEN "On Track"
        ELSE IF AtLeast(50) THEN "Needs Attention"
        ELSE "Critical"

EmptyResult ==
    CASE call.op = "get_dashboard_metrics" ->
           /\ returned.value.total_reports = 0
           /\ returned.value.reports_today = 0
           /\ returned.value.overall_progress = 0
           /\ returned.value.total_target = 0
           /\ returned.value.total_achieved = 0
      [] call.op = "get_daily_trend_data" ->
           returned.value = <<<<>>, <<>>, <<>>>>
      [] OTHER -> DOMAIN returned.value = {}

\* A query of the operation raised: nothing reaches the caller but an empty
\* result.
DegradedToEmpty ==
    (returned.done /\ returned.query_raised) =>
        (~returned.raised /\ EmptyResult)

\* A step writes no table of the store.
StoreUntouched ==
    /\ stored_reports' = stored_reports
    /\ daily_reports' = daily_reports
    /\ report_activities' = report_activities
    /\ email_recipients' = email_recipients
    /\ email_logs' = email_logs

\* C26: when a store query of get_dashboard_metrics, get_site_wise_metrics,
\* get_activity_wise_metrics, get_daily_trend_data, get_cumulative_progress or
\* get_monthly_summary raises, the operation does not raise to its caller, it
\* returns its zero-valued or empty structure, and no operation of the six
\* writes to the store, whether a query raised or not.
Thm_C26_DegradeToEmpty == []DegradedToEmpty /\ [][StoreUntouched]_vars

\* The store has reports of the sites the monthly summary is asked for, in
\* the month it is asked for, and the query raised.
Wit_C26_RaisedOverData ==
    /\ returned.done
    /\ returned.query_raised
    /\ call.op = "get_monthly_summary"
    /\ call.month = 1
    /\ Len(stored_reports) = 2
    /\ \A i \in DOMAIN stored_reports :
          /\ stored_reports[i].site_code \in elements(call.sites)
          /\ stored_reports[i].activities # <<>>
    /\ DOMAIN returned.value = {}

\* --------------------------------------------------------------- C27
\* The catalog activities an allow-list lets through, in catalog order: all
\* of them when no allow-list is given.
Allowed(selected_activities) ==
    LET Listed(name) == name \in elements(selected_activities.names)
    IN  IF selected_activities.given THEN SelectSeq(activities_map, Listed)
        ELSE activities_map

\* C27: the result has exactly one entry per catalog activity of the
\* allow-list (per catalog activity when no allow-list is given), in catalog
\* order, with the catalog's unit; with any allow-list that is given, the
\* empty list too, no activity outside it appears, and a name that is in the
\* data but not in the catalog never appears.
Cex_C27_AllowList ==
    ActivityViewReturned =>
        /\ [k \in DOMAIN returned.value |-> returned.value[k].activity]
              = Allowed(call.selected_activities)
        /\ \A k \in DOMAIN returned.value :
              /\ returned.value[k].unit = "Nos"
              /\ returned.value[k].activity \in elements(activities_map)
              /\ call.selected_activities.given =>
                    returned.value[k].activity
                       \in elements(call.selected_activities.names)

\* --------------------------------------------------------------- C30
\* The export has compiled the reports of the store, and the activity view
\* has run over all of them for one site.
SameRowsOneSite ==
    /\ worksheet.compiled
    /\ reports_data = stored_reports
    /\ ActivityViewReturned
    /\ Len(call.sites) = 1
    /\ \A i \in DOMAIN stored_reports :
          /\ call.start_date <= stored_reports[i].report_date
          /\ stored_reports[i].report_date <= call.end_date

\* The cells of the worksheet for an activity and a site: every group of the
\* activity's row in a column of the site.
CellsOf(activity_name, site) ==
    { worksheet.rows[r].cells[c] :
        r \in { x \in DOMAIN worksheet.rows :
                  worksheet.rows[x].activity_name = activity_name },
        c \in { y \in DOMAIN export_sites : export_sites[y] = site } }

\* C30 as stated: the Target, Achieved and Cumulative cells of an activity
\* and a site in the worksheet equal the target, achieved and cumulative
\* the activity view returns for the activity over the same rows with the
\* site list [s].
Cex_C30_MatrixEqualsView ==
    SameRowsOneSite =>
        \A k \in DOMAIN returned.value :
            \A cells \in CellsOf(returned.value[k].activity, call.sites[1]) :
                /\ cells.target = returned.value[k].target
                /\ cells.achieved = returned.value[k].achieved
                /\ cells.cumulative = returned.value[k].cumulative

\* C30, amended: the cells, to two decimals, equal what the activity view
\* returns, and every catalog activity the view returns has its cells.
Thm_C30_MatrixRoundedEqualsView ==
    SameRowsOneSite =>
        \A k \in DOMAIN returned.value :
            /\ CellsOf(returned.value[k].activity, call.sites[1]) # {}
            /\ \A cells \in CellsOf(returned.value[k].activity, call.sites[1]) :
                  /\ ToTwoDecimals(cells.target) = returned.value[k].target
                  /\ ToTwoDecimals(cells.achieved) = returned.value[k].achieved
                  /\ ToTwoDecimals(cells.cumulative)
                        = returned.value[k].cumulative

\* Both sites have a row of the first catalog activity; the view is asked
\* for the second site, whose cell shows 1.004 where the view returns 1.0.
Wit_C30_OtherSiteHasRows ==
    /\ SameRowsOneSite
    /\ call.sites = <<export_sites[2]>>
    /\ call.selected_activities = NoSelection
    /\ Cardinality(Matching(activities_map[1], export_sites[1])) = 1
    /\ Cardinality(Matching(activities_map[1], export_sites[2])) = 1
    /\ worksheet.rows[1].cells[2].target = 1004
    /\ returned.value[1].target = 1000
    /\ worksheet.rows[1].cells[1].target = 2000

\* --------------------------------------------------------------- C28
\* Both calls have returned, and no query of either has failed.
BothReturned == faults = 0 /\ \A e \in Sessions : save_pc[e] = "returned"

\* The activities a save means to store: the entries of its form that have a
\* quantity.
ActivitySetOf(e) ==
    { a \in elements(form[e].activities_data) : HasQuantity(a) }

\* C28: when two save_daily_report calls for one (site, date) pair have
\* interleaved step by step and both have returned, no query having failed
\* on the way, the store holds at most
\* one daily_reports row of the pair, and the activity rows of the pair are
\* the activity set of exactly one of the two saves, not a mixture or union.
Cex_C28_OneSaveWins ==
    (BothReturned /\ PairOf(1) = PairOf(2)) =>
        /\ Cardinality(select_report(daily_reports, form[1].report_date,
                                     form[1].site_code)) <= 1
        /\ \E e \in Sessions :
              /\ elements(StoredEntries(form[1].site_code, form[1].report_date))
                    = ActivitySetOf(e)
              /\ Len(StoredEntries(form[1].site_code, form[1].report_date))
                    = Cardinality(ActivitySetOf(e))

\* --------------------------------------------------------------- C29
\* The log writes of the run that failed: positions in trace.
LogFailures == { k \in CallsOf("log") : ~trace[k].ok }

\* C29: a log write that fails does not abort the run and does not change
\* its outcome: the call after it is the send to the next recipient, the run
\* does not end in the hard error, and the result, when returned, has made
\* one attempt per recipient and counts the successful and the failed send
\* attempts, as it does without a log failure; main() returns the warning
\* exactly when a send failed.
Thm_C29_LogFailureIsolated ==
    LogFailures # {} =>
        /\ \A k \in LogFailures :
              /\ trace[k - 1].op = "send"
              /\ trace[k - 1].rcpt = trace[k].rcpt
              /\ k < Len(trace) =>
                    /\ trace[k + 1].op = "send"
                    /\ trace[k + 1].rcpt # trace[k].rcpt
              /\ (k = Len(trace) /\ ~result.returned) =>
                    (pc = "send" /\ Len(Sends) < Len(recipients))
        /\ outcome # "error"
        /\ result.returned =>
              /\ Len(Sends) = Len(recipients)
              /\ \A i \in DOMAIN recipients : Sends[i].rcpt = recipients[i].email
              /\ result.total = Len(recipients)
              /\ result.sent = Cardinality({ i \in 1..Len(Sends) : Sends[i].ok })
              /\ result.failed = Cardinality({ i \in 1..Len(Sends) : ~Sends[i].ok })
        /\ pc = "returned" =>
              /\ outcome \in {"success", "warning"}
              /\ outcome = "warning" <=> \E i \in 1..Len(Sends) : ~Sends[i].ok

\* The log write of the first of two recipients failed; both sends were
\* accepted and the run returned success.
Wit_C29_FirstLogLost ==
    /\ pc = "returned"
    /\ Len(recipients) = 2
    /\ \E k \in LogFailures : trace[k].rcpt = recipients[1].email
    /\ Len(Sends) = 2
    /\ Sends[1].ok /\ Sends[2].ok
    /\ result.sent = 2 /\ result.failed = 0
    /\ outcome = "success"
    /\ Len(RunLogRows) = 1
====
